---- MODULE Spec2Model ----
(***************************************************************************)
(* A model of plxscripting's proxy layer: the proxy factory with its       *)
(* identity map (plxproxyfactory.py), the result handler and the Server   *)
(* with its three query caches (server.py), and the proxy objects'        *)
(* attribute caches (plxproxy.py).  One caller uses the Server; the only  *)
(* suspension point of an operation is its request to the connection.     *)
(*                                                                         *)
(* An operation works on a record w of the program state and its scratch  *)
(* fields; an operator that continues another one's work takes the record *)
(* that one produced as its first parameter.                              *)
(***************************************************************************)
EXTENDS Integers, Sequences, FiniteSets, TLC

\* ------------------------------------------------------------------ bounds
\* Number of proxy objects that are ever constructed.
MaxObjs == 2

\* ------------------------------------------------------- the value universe
\* Python's None where an object reference is expected.
NoObj == 0
\* An absent "ownerguid" key of a returned object.
NoOwner == "none"
\* Python's None as a property name (the default of _create_proxy_object).
NoName == "None"
\* The tokens (guids) the remote server hands out.
Guids == {"g1", "g2"}
\* The type tags whose name starts with "enum" / "staged".
EnumTags == {"enumKind", "enumMode"}
StagedTags == {"stagedNumber", "staged.Number"}
IsEnumTag(t) == t \in EnumTags
IsStagedTag(t) == t \in StagedTags

\* A returned-object representation of a response (a JSON dict).
\* The "json" member of a returned object: whether it is a dict, its
\* "ContentType" member ("" when it has none) and the number that stands for
\* the payload.
Payload(ismap, ctype, v) == [ismap |-> ismap, ctype |-> ctype, v |-> v]
NoPayload == Payload(FALSE, "", 0)
RetObj(g, t, l, og) ==
    [isdict |-> TRUE, guid |-> g, type |-> t, islistable |-> l, ownerguid |-> og, prim |-> 0,
     json |-> NoPayload]
\* A primitive in a response.
RetPrim(v) ==
    [isdict |-> FALSE, guid |-> "", type |-> "", islistable |-> FALSE, ownerguid |-> NoOwner,
     prim |-> v, json |-> NoPayload]
\* JSON_TYPE_JSON, const.py line 92.
JSON_TYPE_JSON == "JSON"
\* A returned object whose type is the JSON marker: it has no guid.
RetJson(payload) ==
    [isdict |-> TRUE, guid |-> "", type |-> JSON_TYPE_JSON, islistable |-> FALSE,
     ownerguid |-> NoOwner, prim |-> 0, json |-> payload]

\* The entities of the responses: a soil material, the same token as a
\* listable line, and a property that names the material as its owner.
Soil == RetObj("g1", "SoilMat", FALSE, NoOwner)
Line == RetObj("g1", "Line", TRUE, NoOwner)
Name == RetObj("g2", "Text", FALSE, "g1")
\* A property whose owner the program never receives.
Orphan == RetObj("g2", "Text", FALSE, "g3")

\* The functions a caller registers as JSON constructors, and what each
\* returns for the payload v.
Constructors == {"create_image", "create_table"}
Constructed(constructor, payload) ==
    (IF constructor = "create_image" THEN 100 ELSE 200) + payload.v

\* The property names of a members response, in sorted order.
PropNames == <<"Name">>
\* A members response without commands and properties.
NoMembers == [raises |-> FALSE, commands |-> {}, properties |-> <<>>]
\* The members responses: commands and a properties dict.
MembersResponses ==
    { [raises |-> TRUE, commands |-> {}, properties |-> <<>>],
      NoMembers,
      [raises |-> FALSE, commands |-> {"move"},
       properties |-> [n \in {"Name"} |-> RetObj("g2", "Text", FALSE, NoOwner)]] }
\* The outcomes of an enumeration request.
EnumResponses == {"ok", "fail", "raise"}

\* ---------------------------------------------------------------- results
\* What an operation returns: None, True, a bare item or a list of items;
\* an item is a proxy (isobj) or a primitive.
Item(o, v) == [isobj |-> o, v |-> v]
ResNone == [kind |-> "none", items |-> <<>>]
ResTrue == [kind |-> "true", items |-> <<>>]
ResBare(it) == [kind |-> "bare", items |-> <<it>>]
ResList(its) == [kind |-> "list", items |-> its]

Range(s) == {s[i] : i \in DOMAIN s}
Put(f, k, v) == [x \in DOMAIN f \cup {k} |-> IF x = k THEN v ELSE f[x]]

\* The operation has raised, or needs more proxies than MaxObjs.
Failed(w) == w.err # "" \/ w.oob
Raise(w, e) == [w EXCEPT !.err = e]

\* ------------------------------------------------------------ proxy objects
\* PlxProxyObject_Abstract.__init__ and PlxProxyObject.__init__: a proxy
\* starts with an empty attribute cache.
PlxProxyObject_init(w, cls, guid, plx_type, property_name, owner) ==
    IF Len(w.heap) >= w.cap
    THEN [w EXCEPT !.oob = TRUE]
    ELSE [w EXCEPT
            !.heap = Append(@, [guid |-> guid, cls |-> cls, plx_type |-> plx_type,
                                property_name |-> property_name, owner |-> owner,
                                attr_none |-> FALSE, attrs |-> <<>>]),
            !.ret = Len(w.heap) + 1]

\* A variant that keeps one registered proxy for a token: the new proxy
\* takes the place of those registered for its token before.
add_proxy_to_reset_per_token(w, id) ==
    [w EXCEPT !.toReset =
        Append(SelectSeq(@, LAMBDA j : w.heap[j].guid # w.heap[id].guid), id)]

\* Server.add_proxy_to_reset
add_proxy_to_reset(w, id) == [w EXCEPT !.toReset = Append(@, id)]

\* PlxProxyMaterial.__init__, line 400: the new proxy registers with the
\* server.
PlxProxyMaterial_register(w1) ==
    IF w1.oob THEN w1 ELSE add_proxy_to_reset(w1, w1.ret)

\* PlxProxyMaterial.__init__
PlxProxyMaterial_init(w, cls, guid, plx_type) ==
    PlxProxyMaterial_register(PlxProxyObject_init(w, cls, guid, plx_type, NoName, NoObj))

\* PlxProxyObjectProperty.__init__
PlxProxyObjectProperty_init(w, cls, guid, plx_type, property_name, owner) ==
    PlxProxyObject_init(w, cls, guid, plx_type, property_name, owner)

\* A variant of reset_cache that keeps the attribute cache.
reset_cache_keep(obj) == obj

\* PlxProxyMaterial.reset_cache
reset_cache(obj) == [obj EXCEPT !.attr_none = TRUE, !.attrs = <<>>]

\* ------------------------------------------------------------ proxy factory
get_proxy_object_if_exists(poc, guid) ==
    IF guid \in DOMAIN poc THEN poc[guid] ELSE NoObj

\* PlxProxyFactory.clear_proxy_object_cache; issued is the history of the
\* (token, handle) pairs the factory has returned since the last clear.
clear_proxy_object_cache(w) == [w EXCEPT !.poc = <<>>, !.issued = {}]

\* A factory that requests the enumeration without looking its class up.
create_proxy_enumeration_refetch(w, guid, name, eresp) ==
    CASE eresp = "raise" ->
           [w EXCEPT !.reqs = @ + 1, !.nested = @ + 1, !.err = "transport"]
      [] eresp = "fail" ->
           [w EXCEPT !.reqs = @ + 1, !.nested = @ + 1, !.err = "Exception"]
      [] OTHER ->
           [w EXCEPT !.reqs = @ + 1, !.nested = @ + 1, !.enums = @ \cup {name}]

\* PlxProxyFactory._create_proxy_enumeration: one schema request for an enum
\* name that has no class yet.
create_proxy_enumeration(w, guid, name, eresp) ==
    IF name \in w.enums
    THEN w
    ELSE CASE eresp = "raise" ->
                [w EXCEPT !.reqs = @ + 1, !.nested = @ + 1, !.err = "transport"]
           [] eresp = "fail" ->
                [w EXCEPT !.reqs = @ + 1, !.nested = @ + 1, !.err = "Exception"]
           [] OTHER ->
                [w EXCEPT !.reqs = @ + 1, !.nested = @ + 1, !.enums = @ \cup {name}]

\* PlxProxyFactory._create_plx_proxy_property, lines 151-154: the
\* enumeration proxy of the class that now exists.
create_enumeration_property(w1, guid, plx_type, property_name, owner) ==
    IF w1.err # "" THEN w1
    ELSE PlxProxyObjectProperty_init(w1, "PlxProxyIPEnumeration", guid, plx_type,
                                     property_name, owner)

\* A variant that dispatches on is_listable only.
property_class_untyped(plx_type, is_listable) ==
    IF is_listable THEN "PlxProxyObjectPropertyListable" ELSE "PlxProxyObjectProperty"

\* PlxProxyFactory._create_plx_proxy_property: the class of a property proxy.
property_class(plx_type, is_listable) ==
    CASE plx_type = "Boolean" -> "PlxProxyIPBoolean"
      [] plx_type = "Number" -> "PlxProxyIPDouble"
      [] plx_type = "Integer" -> "PlxProxyIPInteger"
      [] plx_type = "Object" ->
           IF is_listable THEN "PlxProxyIPObjectListable" ELSE "PlxProxyIPObject"
      [] plx_type = "Text" -> "PlxProxyIPText"
      [] IsStagedTag(plx_type) -> "PlxProxyIPStaged"
      [] OTHER ->
           IF is_listable THEN "PlxProxyObjectPropertyListable" ELSE "PlxProxyObjectProperty"

\* PlxProxyFactory._create_plx_proxy_property
create_plx_proxy_property(w, guid, plx_type, is_listable, property_name, owner, eresp) ==
    IF IsEnumTag(plx_type) /\ plx_type # "Boolean"
    THEN create_enumeration_property(create_proxy_enumeration(w, guid, plx_type, eresp),
                                     guid, plx_type, property_name, owner)
    ELSE PlxProxyObjectProperty_init(w, property_class(plx_type, is_listable), guid,
                                     plx_type, property_name, owner)

\* PlxProxyFactory.create_plx_proxy_object, lines 117-128: the variant that
\* is constructed.
construct_proxy(w, guid, plx_type, is_listable, property_name, owner, eresp) ==
    CASE owner # NoObj ->
           create_plx_proxy_property(w, guid, plx_type, is_listable, property_name,
                                     owner, eresp)
      [] plx_type = "PlxValues" ->
           PlxProxyObject_init(w, "PlxProxyObjectValues", guid, plx_type, NoName, NoObj)
      [] plx_type = "SoilMat" ->
           PlxProxyMaterial_init(w, "PlxProxyObjectMaterial", guid, plx_type)
      [] is_listable ->
           PlxProxyObject_init(w, "PlxProxyObjectListable", guid, plx_type, NoName, NoObj)
      [] OTHER ->
           PlxProxyObject_init(w, "PlxProxyObject", guid, plx_type, NoName, NoObj)

\* PlxProxyFactory.create_plx_proxy_object, lines 130-132: the new proxy is
\* registered in the identity map and returned.
register_proxy(w1, guid) ==
    IF Failed(w1) THEN w1
    ELSE [w1 EXCEPT !.poc = Put(@, guid, w1.ret), !.issued = @ \cup {<<guid, w1.ret>>}]

\* A factory that constructs a proxy without looking the token up.
create_plx_proxy_object_nolookup(w, guid, plx_type, is_listable, property_name, owner, eresp) ==
    register_proxy(construct_proxy(w, guid, plx_type, is_listable, property_name, owner,
                                   eresp), guid)

\* PlxProxyFactory.create_plx_proxy_object
create_plx_proxy_object(w, guid, plx_type, is_listable, property_name, owner, eresp) ==
    IF guid \in DOMAIN w.poc
    THEN [w EXCEPT !.ret = w.poc[guid], !.issued = @ \cup {<<guid, w.poc[guid]>>}]
    ELSE register_proxy(construct_proxy(w, guid, plx_type, is_listable, property_name,
                                        owner, eresp), guid)

\* ----------------------------------------------------------- result handler
RECURSIVE create_proxy_object(_, _, _, _, _, _)
RECURSIVE members_properties(_, _, _, _, _, _)

\* ResultHandler.handle_members_response, line 287: the property proxy is
\* stored under its name.
store_attribute(w1, name) ==
    IF Failed(w1) THEN w1 ELSE [w1 EXCEPT !.attrs = Put(@, name, w1.ret)]

\* ResultHandler.handle_members_response, lines 280-287: a proxy property
\* per property, in sorted name order.
members_properties(w, props, i, proxy_obj, mresp, eresp) ==
    IF Failed(w) \/ i > Len(PropNames) THEN w
    ELSE IF PropNames[i] \notin DOMAIN props
         THEN members_properties(w, props, i + 1, proxy_obj, mresp, eresp)
         ELSE members_properties(
                  store_attribute(create_proxy_object(w, props[PropNames[i]], PropNames[i],
                                                      proxy_obj, mresp, eresp),
                                  PropNames[i]),
                  props, i + 1, proxy_obj, mresp, eresp)

\* ResultHandler.handle_members_response: a proxy method per command (the
\* attribute value NoObj), then the properties.
handle_members_response(w, mresp, proxy_obj, eresp) ==
    members_properties([w EXCEPT !.attrs = [m \in mresp.commands |-> NoObj]],
                       mresp.properties, 1, proxy_obj, mresp, eresp)

\* Server.get_object_attributes: one members request, then its handling.
get_object_attributes(w, proxy_obj, mresp, eresp) ==
    IF mresp.raises
    THEN [w EXCEPT !.reqs = @ + 1, !.err = "transport"]
    ELSE handle_members_response([w EXCEPT !.reqs = @ + 1], mresp, proxy_obj, eresp)

\* ResultHandler._create_proxy_object, line 449: the attributes of the owner
\* are fetched and the returned map is dropped.
drop_attributes(w1, attrs) == [w1 EXCEPT !.attrs = attrs, !.nested = @ + 1]

\* ResultHandler._create_proxy_object, lines 451-453
create_owned_proxy(w1, ro, prop_name, owner, eresp) ==
    IF Failed(w1) THEN w1
    ELSE create_plx_proxy_object(w1, ro.guid, ro.type, ro.islistable, prop_name, owner,
                                 eresp)

\* ResultHandler._create_proxy_object, lines 406-416: the payload of a JSON
\* object goes to the constructor registered for its content type, and is
\* returned as it is when it is no dict or has no content type.
create_json_object(w, json_object) ==
    IF json_object.ismap /\ json_object.ctype # ""
    THEN IF json_object.ctype \notin DOMAIN w.jc
         THEN Raise(w, "Exception")
         ELSE [w EXCEPT !.ret = NoObj,
                        !.val = Constructed(w.jc[json_object.ctype], json_object)]
    ELSE [w EXCEPT !.ret = NoObj, !.val = json_object.v]

\* A variant that returns every payload as it is.
create_proxy_object_as_is(w, ro, prop_name, owner, mresp, eresp) ==
    IF ro.type = JSON_TYPE_JSON
    THEN [w EXCEPT !.ret = NoObj, !.val = ro.json.v]
    ELSE IF owner = NoObj /\ ro.ownerguid # NoOwner
    THEN IF get_proxy_object_if_exists(w.poc, ro.ownerguid) = NoObj
         THEN Raise(w, "PlxScriptingError")
         ELSE create_owned_proxy(
                  IF get_proxy_object_if_exists(w.poc, ro.guid) = NoObj
                  THEN drop_attributes(
                           get_object_attributes(w, w.poc[ro.ownerguid], mresp, eresp),
                           w.attrs)
                  ELSE w,
                  ro, prop_name, w.poc[ro.ownerguid], eresp)
    ELSE create_plx_proxy_object(w, ro.guid, ro.type, ro.islistable, prop_name, owner,
                                 eresp)

\* A variant that does not fetch the members of the owner.
create_proxy_object_unfetched(w, ro, prop_name, owner, mresp, eresp) ==
    IF ro.type = JSON_TYPE_JSON
    THEN create_json_object(w, ro.json)
    ELSE IF owner = NoObj /\ ro.ownerguid # NoOwner
    THEN IF get_proxy_object_if_exists(w.poc, ro.ownerguid) = NoObj
         THEN Raise(w, "PlxScriptingError")
         ELSE create_owned_proxy(w, ro, prop_name, w.poc[ro.ownerguid], eresp)
    ELSE create_plx_proxy_object(w, ro.guid, ro.type, ro.islistable, prop_name, owner,
                                 eresp)

\* A variant that constructs the proxy without an owner when the owner is
\* not in the identity map.
create_proxy_object_ownerless(w, ro, prop_name, owner, mresp, eresp) ==
    IF ro.type = JSON_TYPE_JSON
    THEN create_json_object(w, ro.json)
    ELSE IF owner = NoObj /\ ro.ownerguid # NoOwner
    THEN IF get_proxy_object_if_exists(w.poc, ro.ownerguid) = NoObj
         THEN create_plx_proxy_object(w, ro.guid, ro.type, ro.islistable, prop_name,
                                      NoObj, eresp)
         ELSE create_owned_proxy(
                  IF get_proxy_object_if_exists(w.poc, ro.guid) = NoObj
                  THEN drop_attributes(
                           get_object_attributes(w, w.poc[ro.ownerguid], mresp, eresp),
                           w.attrs)
                  ELSE w,
                  ro, prop_name, w.poc[ro.ownerguid], eresp)
    ELSE create_plx_proxy_object(w, ro.guid, ro.type, ro.islistable, prop_name, owner,
                                 eresp)

\* ResultHandler._create_proxy_object: a JSON object makes no proxy; an
\* entity that names an owner needs the owner in the identity map, and the
\* owner's members are fetched first when the entity's own token is not
\* mapped yet.
create_proxy_object(w, ro, prop_name, owner, mresp, eresp) ==
    IF ro.type = JSON_TYPE_JSON
    THEN create_json_object(w, ro.json)
    ELSE IF owner = NoObj /\ ro.ownerguid # NoOwner
    THEN IF get_proxy_object_if_exists(w.poc, ro.ownerguid) = NoObj
         THEN Raise(w, "PlxScriptingError")
         ELSE create_owned_proxy(
                  IF get_proxy_object_if_exists(w.poc, ro.guid) = NoObj
                  THEN drop_attributes(
                           get_object_attributes(w, w.poc[ro.ownerguid], mresp, eresp),
                           w.attrs)
                  ELSE w,
                  ro, prop_name, w.poc[ro.ownerguid], eresp)
    ELSE create_plx_proxy_object(w, ro.guid, ro.type, ro.islistable, prop_name, owner,
                                 eresp)

\* ResultHandler._create_proxies_from_returned_objects, line 474: the proxy,
\* the object made of a JSON payload (no proxy is returned with it) or the
\* primitive is appended to new_objs (the items of w.res).
append_obj(w1, isobj, prim) ==
    IF Failed(w1) THEN w1
    ELSE [w1 EXCEPT !.res.items = Append(@, IF ~isobj THEN Item(FALSE, prim)
                                            ELSE IF w1.ret = NoObj THEN Item(FALSE, w1.val)
                                            ELSE Item(TRUE, w1.ret))]

RECURSIVE returned_objects_loop(_, _, _, _, _)
\* ResultHandler._create_proxies_from_returned_objects, lines 469-474
returned_objects_loop(w, ros, i, mresp, eresp) ==
    IF Failed(w) \/ i > Len(ros) THEN w
    ELSE returned_objects_loop(
             append_obj(IF ros[i].isdict
                        THEN create_proxy_object(w, ros[i], NoName, NoObj, mresp, eresp)
                        ELSE w,
                        ros[i].isdict, ros[i].prim),
             ros, i + 1, mresp, eresp)

\* A variant of the collapse that returns one item in a list always.
collapse_keep_list(w1, allow_one_item_list_result) ==
    IF Failed(w1) THEN w1
    ELSE IF w1.res.items = <<>> THEN [w1 EXCEPT !.res = ResNone]
    ELSE w1

\* A variant of the collapse that returns one item bare always.
collapse_one_bare(w1, allow_one_item_list_result) ==
    IF Failed(w1) THEN w1
    ELSE IF Len(w1.res.items) = 1 THEN [w1 EXCEPT !.res = ResBare(w1.res.items[1])]
    ELSE IF w1.res.items = <<>> THEN [w1 EXCEPT !.res = ResNone]
    ELSE w1

\* ResultHandler._create_proxies_from_returned_objects, lines 476-490: one
\* item is returned bare unless a list is asked for, no item is None.
collapse(w1, allow_one_item_list_result) ==
    IF Failed(w1) THEN w1
    ELSE IF Len(w1.res.items) = 1 /\ ~allow_one_item_list_result
         THEN [w1 EXCEPT !.res = ResBare(w1.res.items[1])]
    ELSE IF w1.res.items = <<>> THEN [w1 EXCEPT !.res = ResNone]
    ELSE w1

\* ResultHandler._create_proxies_from_returned_objects
create_proxies_from_returned_objects(w, ros, allow_one_item_list_result, mresp, eresp) ==
    collapse(returned_objects_loop([w EXCEPT !.res = ResList(<<>>)], ros, 1, mresp, eresp),
             allow_one_item_list_result)

\* A variant that raises without the extra information of the response.
Unsuccessful_bare(w, extrainfo) ==
    [w EXCEPT !.err = "PlxScriptingError", !.msg = <<"Unsuccessful command:", "">>]

\* PlxScriptingError("Unsuccessful command:\n" + response[JSON_EXTRAINFO]):
\* the message is the prefix and the extra information of the response.
Unsuccessful(w, extrainfo) ==
    [w EXCEPT !.err = "PlxScriptingError", !.msg = <<"Unsuccessful command:", extrainfo>>]

\* ResultHandler.handle_namedobjects_response
handle_namedobjects_response(w, resp, mresp, eresp) ==
    IF resp.success
    THEN create_proxies_from_returned_objects(w, <<resp.ro>>, FALSE, mresp, eresp)
    ELSE Unsuccessful(w, resp.extrainfo)

\* ResultHandler._handle_successful_command, lines 209-217: the objects, else
\* the returned values, else the extra information, else True.
successful_command_result(w1, resp) ==
    IF Failed(w1) \/ w1.res # ResNone THEN w1
    ELSE IF Len(resp.returnedvalues) > 0
         THEN [w1 EXCEPT !.res = ResList([i \in DOMAIN resp.returnedvalues |->
                                            Item(FALSE, resp.returnedvalues[i])])]
    ELSE IF resp.extrainfo # "" THEN [w1 EXCEPT !.res = [kind |-> "info", items |-> <<>>]]
    ELSE [w1 EXCEPT !.res = ResTrue]

\* ResultHandler._handle_successful_command
handle_successful_command(w, resp, mresp, eresp) ==
    successful_command_result(
        create_proxies_from_returned_objects(w, resp.returnedobjects, FALSE, mresp, eresp),
        resp)

\* ResultHandler.handle_commands_response
handle_commands_response(w, resp, mresp, eresp) ==
    IF resp.success
    THEN handle_successful_command(w, resp, mresp, eresp)
    ELSE Unsuccessful(w, resp.extrainfo)

\* ResultHandler.handle_list_response: the output data of a count is the
\* number, that of a sublist the objects, that of an index query one object
\* (outputdata holds it alone); of a member query, the output data of the
\* queried member.
handle_list_response(w, resp, mresp, eresp) ==
    IF ~resp.success THEN Unsuccessful(w, resp.extrainfo)
    ELSE CASE resp.methodname = "count" ->
                [w EXCEPT !.res = ResBare(Item(FALSE, resp.count))]
           [] resp.methodname \in {"sublist", "membersublist"} ->
                create_proxies_from_returned_objects(w, resp.outputdata, TRUE, mresp, eresp)
           [] resp.methodname \in {"index", "memberindex"} ->
                create_proxies_from_returned_objects(w, <<resp.outputdata[1]>>, FALSE,
                                                     mresp, eresp)
           [] OTHER -> Unsuccessful(w, resp.extrainfo)

\* ResultHandler._get_single_propertyvalues for an owner whose type is not
\* staged: a missing attribute and the null guid give None, a primitive is
\* returned as it is, a dict becomes a proxy.
get_single_propertyvalues(w, resp, mresp, eresp) ==
    CASE resp.kind = "dict" ->
           create_proxies_from_returned_objects(w, <<resp.attr>>, FALSE, mresp, eresp)
      [] resp.kind = "prim" -> [w EXCEPT !.res = ResBare(Item(FALSE, resp.attr.prim))]
      [] OTHER -> [w EXCEPT !.res = ResNone]

\* ResultHandler.handle_propertyvalues_response, line 340: the list of the
\* values, here of one query; None is the item (TRUE, NoObj).
values_list(w1) ==
    IF Failed(w1) THEN w1
    ELSE [w1 EXCEPT !.res = ResList(IF w1.res = ResNone THEN <<Item(TRUE, NoObj)>>
                                    ELSE w1.res.items)]

\* ResultHandler.handle_propertyvalues_response for one query
handle_propertyvalues_response(w, resp, mresp, eresp) ==
    values_list(get_single_propertyvalues(w, resp, mresp, eresp))

\* None in a list of values.
None == Item(TRUE, NoObj)

\* A variant that leaves out the queries without a value.
append_response_skip(w1, response) ==
    IF Failed(w1) THEN w1
    ELSE [w1 EXCEPT !.res = ResList(IF w1.res = ResNone THEN response
                                    ELSE Append(response, w1.res.items[1]))]

\* ResultHandler.handle_propertyvalues_response, line 338: what
\* _get_single_propertyvalues returned is appended to response.
append_response(w1, response) ==
    IF Failed(w1) THEN w1
    ELSE [w1 EXCEPT !.res = ResList(Append(response, IF w1.res = ResNone THEN None
                                                     ELSE w1.res.items[1]))]

RECURSIVE propertyvalues_loop(_, _, _, _, _)
\* ResultHandler.handle_propertyvalues_response, lines 334-338: the queries
\* of propertyvalues_response_list in their order; w.res holds response.
propertyvalues_loop(w, resps, i, mresp, eresp) ==
    IF Failed(w) \/ i > Len(resps) THEN w
    ELSE propertyvalues_loop(
             append_response(get_single_propertyvalues(w, resps[i], mresp, eresp),
                             w.res.items),
             resps, i + 1, mresp, eresp)

\* ResultHandler.handle_propertyvalues_response for a list of queries
handle_propertyvalues_response_list(w, resps, mresp, eresp) ==
    propertyvalues_loop([w EXCEPT !.res = ResList(<<>>)], resps, 1, mresp, eresp)

\* ResultHandler.handle_selection_response, lines 381-384: no object is the
\* empty list.
selection_list(w1) ==
    IF Failed(w1) THEN w1
    ELSE IF w1.res = ResNone THEN [w1 EXCEPT !.res = ResList(<<>>)] ELSE w1

\* ResultHandler.handle_selection_response
handle_selection_response(w, resp, mresp, eresp) ==
    selection_list(create_proxies_from_returned_objects(w, resp.selection, TRUE, mresp,
                                                        eresp))

\* ------------------------------------------------------------------- server
\* A variant of reset_caches that keeps the three query caches.
reset_caches_attrs_only(w) ==
    [w EXCEPT !.heap = [i \in DOMAIN w.heap |->
                          IF i \in Range(w.toReset) THEN reset_cache(w.heap[i])
                          ELSE w.heap[i]],
              !.didreset = TRUE]

\* Server.reset_caches: every registered proxy drops its attribute cache and
\* the three query caches are replaced by empty ones.
reset_caches(w) ==
    [w EXCEPT !.heap = [i \in DOMAIN w.heap |->
                          IF i \in Range(w.toReset) THEN reset_cache(w.heap[i])
                          ELSE w.heap[i]],
              !.gc = <<>>, !.vc = <<>>, !.lc = <<>>, !.didreset = TRUE]

\* A variant of the lookup that is never served from the cache.
cache_hit_never(allow, key, cache) == FALSE

\* Server.__get_with_cache, line 635: is the lookup served from the cache?
cache_hit(allow, key, cache) == allow /\ key \in DOMAIN cache

\* A variant that stores the result whether caching is allowed or not.
cache_store_always(allow, key, cache, result) == Put(cache, key, result)

\* Server.__get_with_cache, lines 640-641: the result is stored when caching
\* is allowed.
cache_store(allow, key, cache, result) ==
    IF allow THEN Put(cache, key, result) ELSE cache

\* A variant of the project commands that resets nothing.
environment_result_keep(w, result) == w

\* Server.new / recover / open / close after request_environment returned
\* result: a non-empty result resets the caches and the identity map.
environment_result(w, result) ==
    IF result # "" THEN clear_proxy_object_cache(reset_caches(w)) ELSE w

\* A variant of the setter that also clears the identity map.
set_allow_caching_clearing(w, old, value) == clear_proxy_object_cache(reset_caches(w))

\* The allow_caching setter: a changed value resets the caches.
set_allow_caching(w, old, value) ==
    IF old # value THEN reset_caches(w) ELSE w

\* PlxProxyObject._ensure_cache_is_valid, line 270: a None or empty attribute
\* cache is fetched.
attr_cache_missing(obj) == obj.attr_none \/ obj.attrs = <<>>

\* Server.__get_name_object_no_cache
get_name_object_no_cache(w, resp, mresp, eresp) ==
    IF resp.raises
    THEN [w EXCEPT !.reqs = @ + 1, !.err = "transport"]
    ELSE handle_namedobjects_response([w EXCEPT !.reqs = @ + 1], resp, mresp, eresp)

\* Server.__get_objects_property_no_cache for one proxy object
get_objects_property_no_cache(w, resp, mresp, eresp) ==
    IF resp.kind = "raise"
    THEN [w EXCEPT !.reqs = @ + 1, !.err = "transport"]
    ELSE handle_propertyvalues_response([w EXCEPT !.reqs = @ + 1], resp, mresp, eresp)

\* Server.__call_listable_method_no_cache
call_listable_method_no_cache(w, resp, mresp, eresp) ==
    IF resp.raises
    THEN [w EXCEPT !.reqs = @ + 1, !.err = "transport"]
    ELSE handle_list_response([w EXCEPT !.reqs = @ + 1], resp, mresp, eresp)

\* A variant that stores whatever the lookup left, also when it raised.
store_global_failed(w1, allow, key) ==
    [w1 EXCEPT !.gc = cache_store(allow, key, @, w1.res)]

\* Server.__get_with_cache, lines 639-643, for the three caches
store_global(w1, allow, key) ==
    IF Failed(w1) THEN w1 ELSE [w1 EXCEPT !.gc = cache_store(allow, key, @, w1.res)]
store_value(w1, allow, key) ==
    IF Failed(w1) THEN w1 ELSE [w1 EXCEPT !.vc = cache_store(allow, key, @, w1.res)]
store_listable(w1, allow, key) ==
    IF Failed(w1) THEN w1 ELSE [w1 EXCEPT !.lc = cache_store(allow, key, @, w1.res)]

\* Server.get_named_object through __get_with_cache
get_named_object(w, allow, key, resp, mresp, eresp) ==
    IF cache_hit(allow, key, w.gc)
    THEN [w EXCEPT !.res = w.gc[key]]
    ELSE store_global(get_name_object_no_cache(w, resp, mresp, eresp), allow, key)

\* Server.get_objects_property through __get_with_cache: the list for one
\* proxy object.
get_objects_property(w, allow, key, resp, mresp, eresp) ==
    IF cache_hit(allow, key, w.vc)
    THEN [w EXCEPT !.res = w.vc[key]]
    ELSE store_value(get_objects_property_no_cache(w, resp, mresp, eresp), allow, key)

\* Server.get_object_property, line 729: element 0 of that list.
first_value(w1) ==
    IF Failed(w1) THEN w1
    ELSE [w1 EXCEPT !.res = IF w1.res.items[1] = Item(TRUE, NoObj) THEN ResNone
                             ELSE ResBare(w1.res.items[1])]

\* Server.get_object_property
get_object_property(w, allow, key, resp, mresp, eresp) ==
    first_value(get_objects_property(w, allow, key, resp, mresp, eresp))

\* Server.call_listable_method through __get_with_cache
call_listable_method(w, allow, key, resp, mresp, eresp) ==
    IF cache_hit(allow, key, w.lc)
    THEN [w EXCEPT !.res = w.lc[key]]
    ELSE store_listable(call_listable_method_no_cache([w EXCEPT !.sent = Append(@, key)],
                                                      resp, mresp, eresp),
                        allow, key)

\* A variant of call_commands that sends its request without a reset.
call_commands_begin_unreset(w) == w

\* Server.call_commands, line 791
call_commands_begin(w) == reset_caches(w)
\* Server.call_plx_object_method, lines 765-768
call_plx_object_method_begin(w) == call_commands_begin(reset_caches(w))
\* Server.set_object_property, lines 735-736
set_object_property_begin(w) == call_plx_object_method_begin(reset_caches(w))

\* Server.call_commands returns the raw response list; the two others hand
\* the feedback of their command to the result handler.
commands_result(w, op, resp, mresp, eresp) ==
    IF resp.raises THEN [w EXCEPT !.reqs = @ + 1, !.err = "transport"]
    ELSE IF op = "call_commands"
         THEN [w EXCEPT !.reqs = @ + 1, !.res = [kind |-> "raw", items |-> <<>>]]
    ELSE handle_commands_response([w EXCEPT !.reqs = @ + 1], resp, mresp, eresp)

\* Server.new / recover / open / close, lines 603-606: the caches and the
\* identity map after request_environment, whose result is returned.
project_result(w, result) ==
    IF result = "raise" THEN [w EXCEPT !.reqs = @ + 1, !.err = "transport"]
    ELSE environment_result(
             [w EXCEPT !.reqs = @ + 1,
                       !.res = [kind |-> IF result = "" THEN "empty" ELSE "info",
                                items |-> <<>>]],
             result)

\* PlxProxyObject._ensure_cache_is_valid, line 271: the attribute cache
\* becomes the map get_object_attributes returned.
set_attr_cache(w1, o) ==
    IF Failed(w1) THEN w1
    ELSE [w1 EXCEPT !.heap[o].attrs = w1.attrs, !.heap[o].attr_none = FALSE]

\* PlxProxyObject._ensure_cache_is_valid
ensure_cache_is_valid(w, o, mresp, eresp) ==
    IF attr_cache_missing(w.heap[o])
    THEN set_attr_cache(get_object_attributes(w, o, mresp, eresp), o)
    ELSE w

\* Server.call_selection_command
call_selection_command(w, resp, mresp, eresp) ==
    IF resp.raises THEN [w EXCEPT !.reqs = @ + 1, !.err = "transport"]
    ELSE handle_selection_response([w EXCEPT !.reqs = @ + 1], resp, mresp, eresp)

\* ------------------------------------------------------------------- inputs
\* Python's None as an index or a phase of a query.
NoIndex == -1
\* The names looked up with get_named_object.
Names == {"Soil"}
\* The property read with get_object_property.
ReadProps == {"Name"}
\* The list queries: len().
ListQueries == { <<"count", NoIndex, NoIndex>> }

\* The responses to a namedobjects request; raises is a transport failure.
NamedResponses ==
    { [raises |-> TRUE, success |-> FALSE, ro |-> RetPrim(0), extrainfo |-> ""],
      [raises |-> FALSE, success |-> FALSE, ro |-> RetPrim(0), extrainfo |-> "error"] }
    \cup { [raises |-> FALSE, success |-> TRUE, ro |-> ro, extrainfo |-> ""] : ro \in {Soil, Name} }

\* The responses to a propertyvalues request for one owner.
PropertyResponses ==
    { [kind |-> k, attr |-> RetPrim(0)] : k \in {"raise", "absent", "null"} }
    \cup { [kind |-> "prim", attr |-> RetPrim(v)] : v \in {1} }
    \cup { [kind |-> "dict", attr |-> ro] : ro \in {Name} }

\* The responses to a list request with the given method.
ListResponses(method) ==
    { [raises |-> TRUE, success |-> FALSE, methodname |-> method, count |-> 0,
       outputdata |-> <<>>, extrainfo |-> ""],
      [raises |-> FALSE, success |-> FALSE, methodname |-> method, count |-> 0,
       outputdata |-> <<>>, extrainfo |-> "error"] }
    \cup IF method = "count"
         THEN { [raises |-> FALSE, success |-> TRUE, methodname |-> method, count |-> n,
                 outputdata |-> <<>>, extrainfo |-> ""] : n \in {1} }
         ELSE { [raises |-> FALSE, success |-> TRUE, methodname |-> method, count |-> 0,
                 outputdata |-> <<ro>>, extrainfo |-> ""] : ro \in {Name} }
              \cup { [raises |-> FALSE, success |-> TRUE, methodname |-> method, count |-> 0,
                      outputdata |-> <<>>, extrainfo |-> ""] }

\* The responses to a commands request with one command.
CommandResponses ==
    { [raises |-> TRUE, success |-> FALSE, returnedobjects |-> <<>>,
       returnedvalues |-> <<>>, extrainfo |-> ""],
      [raises |-> FALSE, success |-> FALSE, returnedobjects |-> <<>>,
       returnedvalues |-> <<>>, extrainfo |-> "error"],
      [raises |-> FALSE, success |-> TRUE, returnedobjects |-> <<>>,
       returnedvalues |-> <<>>, extrainfo |-> ""] }
    \cup { [raises |-> FALSE, success |-> TRUE, returnedobjects |-> <<ro>>,
            returnedvalues |-> <<>>, extrainfo |-> "OK"] : ro \in {Soil} }

\* The results of request_environment: it raises, or returns the reason
\* phrase of the response.
EnvironmentResults == {"raise", "", "OK"}

\* The responses to a selection request.
SelectionResponses ==
    { [raises |-> TRUE, selection |-> <<>>], [raises |-> FALSE, selection |-> <<>>] }

\* Does a response hold an entity that names its owner?
NamesOwner(ros) == \E i \in DOMAIN ros : ros[i].isdict /\ ros[i].ownerguid # NoOwner
\* Does it hold an entity with an enumeration type?
NamesEnum(ros) == \E i \in DOMAIN ros : ros[i].isdict /\ IsEnumTag(ros[i].type)
\* The members responses that can follow a response: the members of an owner
\* are requested only for an entity that names its owner.
MembersAfter(ros) == IF NamesOwner(ros) THEN MembersResponses ELSE {NoMembers}
\* The enumeration responses that can follow: an enumeration is requested
\* only for an entity or a property with an enumeration type.
EnumsAfter(ros, mresp) ==
    IF NamesEnum(ros) \/ \E n \in DOMAIN mresp.properties : IsEnumTag(mresp.properties[n].type)
    THEN EnumResponses
    ELSE {"ok"}

\* -------------------------------------------------------------------- state
VARIABLES
    allow_caching,        \* Server.__allow_caching
    globals_cache,        \* Server.__globals_cache
    values_cache,         \* Server.__values_cache
    listables_cache,      \* Server.__listables_cache
    proxies_to_reset,     \* Server._proxies_to_reset
    proxy_object_cache,   \* PlxProxyFactory.proxy_object_cache
    proxy_enum_classes,   \* PlxProxyFactory._proxy_enum_classes (its keys)
    heap,                 \* the proxy objects constructed so far
    selection_objects,    \* Selection._objects
    pc,                   \* "idle", or "wait": a request is with the connection
    pending,              \* the operation that waits for its response
    last,                 \* what the operation that has just completed did
    issued,               \* history: (token, handle) pairs returned since the last clear
    seen,                 \* history: reads that succeeded since the last reset_caches
    stale,                \* history: keys cached before a mutating call, not read since
    server_selection,     \* history: the tokens of the last selection response handled
    returned,             \* history: the returned objects of the last response handled
    json_constructors,    \* ResultHandler._json_constructors
    remote_count,         \* the length of the remote collection
    iter,                 \* the frame of the generator PlxProxyListable.__iter__
    indexed,              \* history: the values collection[0], collection[1], ... returned
    queries,              \* history: the list queries the last operation sent
    error,                \* history: the exception the last operation raised
    enum_dict,            \* PlxProxyIPEnumeration.enum_dict, in the order of the class dict
    remote_ordinal,       \* the value of the enumeration property at the server
    stagedIP_value,       \* PlxProxyObjectProperty._stagedIP_value of the enumeration proxy
    requested,            \* the name and the ordinal of the property set that was sent last
    assigned,             \* history: the name whose assignment the server has applied
    schema_requests,      \* history: the enumeration requests that succeeded, by enum name
    staged_request,       \* history: the last assignment to a staged property that sent a set
    members_fetched,      \* history: the proxies whose members were requested and returned
    global_attr_cache,    \* PlxProxyGlobalObject._attr_cache (its keys)
    resolved,             \* history: the steps of the last attribute resolution
    message,              \* history: the message of the exception the last operation raised
    answer,               \* history: what the connection gave the last operation
    ip_attrs,             \* _attr_cache and _ip_attr_cache of a PlxProxyIPObject
    wrapped,              \* the entity that is the value of that property at the server
    own_members,          \* the members the server gives for that property itself
    accessed,             \* history: the last access of that property's attributes
    selection_call,       \* history: the method of the Selection called last, its arguments
    selection_request,    \* history: the payload of the last selection request sent
    threads,              \* the threads of the host: where each is in its operation
    remote_value,         \* the value of the property at the server
    use_lock,             \* does the host take one lock around every operation?
    lock_owner            \* the threads that hold the lock of the host: one, or none

\* The state of the Server, the factory and the proxies, with its histories.
server_vars == <<allow_caching, globals_cache, values_cache, listables_cache,
                 proxies_to_reset, proxy_object_cache, proxy_enum_classes, heap,
                 selection_objects, pc, pending, last, issued, seen, stale>>
\* The state only the operations on the selection, the result handler on
\* its own, the operations on a collection and those on an enumeration
\* property work on.
sel_vars == <<server_selection>>
res_vars == <<returned, json_constructors>>
list_vars == <<remote_count, iter, indexed, queries, error>>
enum_vars == <<enum_dict, remote_ordinal, stagedIP_value, requested, assigned>>
fac_vars == <<schema_requests>>
staged_vars == <<staged_request>>
attr_vars == <<members_fetched>>
global_vars == <<global_attr_cache, resolved>>
ext2 == <<fac_vars, staged_vars, attr_vars, global_vars>>
ipo_vars == <<ip_attrs, wrapped, own_members, accessed>>
selop_vars == <<selection_call, selection_request>>
host_vars == <<threads, remote_value, use_lock, lock_owner>>
ext3 == <<message, answer, ipo_vars, selop_vars, host_vars>>
ext == <<sel_vars, res_vars, list_vars, enum_vars, ext2, ext3>>

vars == <<server_vars, ext>>

Namespaces == {"g", "v", "l"}
EmptySeen == [ns \in Namespaces |-> <<>>]
EmptyStale == [ns \in Namespaces |-> {}]

\* No operation waits for a response.
Idle == "none"

NoLast == [op |-> "none", ns |-> "", key |-> <<>>, reqs |-> 0, nested |-> 0,
           outcome |-> "ok", res |-> ResNone, stale |-> FALSE, owned |-> FALSE]

\* The program state an operation works on, with its scratch fields: the
\* requests it sent (reqs; nested: the members and enumeration requests made
\* while a response is interpreted), the value (ret) and the result (res) it
\* returns, the exception it raises (err) and whether it needs more proxies
\* than MaxObjs (oob); sent: the list queries it handed to the connection;
\* jc: the JSON constructors; val: the object made of a JSON payload; msg:
\* the message of the exception.
W == [poc |-> proxy_object_cache, heap |-> heap, enums |-> proxy_enum_classes,
      toReset |-> proxies_to_reset, gc |-> globals_cache, vc |-> values_cache,
      lc |-> listables_cache, issued |-> issued,
      reqs |-> 0, nested |-> 0, ret |-> NoObj, res |-> ResNone,
      attrs |-> <<>>, err |-> "", oob |-> FALSE, didreset |-> FALSE, sent |-> <<>>,
      jc |-> json_constructors, val |-> 0, msg |-> <<>>, cap |-> MaxObjs]

\* The operation's effects on the program state.
Commit(w) ==
    /\ ~w.oob
    /\ proxy_object_cache' = w.poc
    /\ heap' = w.heap
    /\ proxy_enum_classes' = w.enums
    /\ proxies_to_reset' = w.toReset
    /\ globals_cache' = w.gc
    /\ values_cache' = w.vc
    /\ listables_cache' = w.lc
    /\ issued' = w.issued

\* Server.__init__ and PlxProxyFactory.__init__
InitServer ==
    /\ allow_caching \in BOOLEAN
    /\ globals_cache = <<>>
    /\ values_cache = <<>>
    /\ listables_cache = <<>>
    /\ proxies_to_reset = <<>>
    /\ proxy_object_cache = <<>>
    /\ proxy_enum_classes = {}
    /\ heap = <<>>
    /\ selection_objects = <<>>
    /\ pc = "idle"
    /\ pending = Idle
    /\ last = NoLast
    /\ issued = {}
    /\ seen = EmptySeen
    /\ stale = EmptyStale

\* Selection.__init__ (selection.py, line 27): no selection response yet.
InitSelection ==
    /\ server_selection = <<>>

\* No response has been handled.
InitReturned ==
    /\ returned = <<>>
    /\ json_constructors = <<>>

\* No generator frame.
NoIter == [pc |-> "none", cache_start |-> 0, length |-> 0, windows |-> <<>>,
           yielded |-> <<>>, runs |-> 0]

\* No iteration has started and nothing has been indexed.
InitIteration ==
    /\ iter = NoIter
    /\ indexed = <<>>
    /\ queries = <<>>
    /\ error = ""

\* An empty remote collection.
InitListable ==
    /\ remote_count = 0
    /\ InitIteration

\* Python's None as an ordinal.
NoOrdinal == -1
\* No property set was sent.
NoRequest == [name |-> NoName, ordinal |-> NoOrdinal]

\* PlxProxyObjectProperty.__init__, line 415: no staged value; nothing was
\* assigned.
InitProperty ==
    /\ stagedIP_value = NoOrdinal
    /\ requested = NoRequest
    /\ assigned = NoName

\* No enumeration property.
InitEnumeration ==
    /\ enum_dict = <<>>
    /\ remote_ordinal = 0
    /\ InitProperty

\* PlxProxyFactory.__init__: no enumeration was requested.
InitFactory ==
    /\ schema_requests = [name \in EnumTags |-> 0]

\* No assignment to a staged property has sent a property set.
NoStagedRequest ==
    [key |-> [isproxy |-> FALSE, v |-> 0],
     value |-> [kind |-> "none", v |-> 0, pinned |-> NoOrdinal], params |-> <<>>]
InitStaged ==
    /\ staged_request = NoStagedRequest

\* PlxProxyObject_Abstract.__init__: no members were requested.
InitAttributes ==
    /\ members_fetched = {}

\* PlxProxyGlobalObject.__init__: an empty attribute cache.
InitGlobal ==
    /\ global_attr_cache = {}
    /\ resolved = <<>>

InitExt2 == InitFactory /\ InitStaged /\ InitAttributes /\ InitGlobal

\* What the connection gave an operation: nothing (the operation sent no
\* request), an exception, or a response with its success flag and its extra
\* information.
Answer(resp) ==
    IF resp.raises THEN [kind |-> "raises", extrainfo |-> ""]
    ELSE [kind |-> IF resp.success THEN "success" ELSE "unsuccessful",
          extrainfo |-> resp.extrainfo]
NoAnswer == [kind |-> "none", extrainfo |-> ""]

\* The threads of the host; the lock is held by no thread.
Threads == {1, 2}
NoThread == {}
\* A thread outside the operations of the Server; it has read nothing.
\* (fresh is history: was what its last read returned the value of the server
\* at the time it returned?)
IdleThread == [pc |-> "idle", response |-> 0, argument |-> 0, result |-> ResNone,
               calls |-> 0, op |-> "none", fresh |-> TRUE]
\* The host before its threads start, with the lock or without it.
InitHost(lock) ==
    /\ threads = [t \in Threads |-> IdleThread]
    /\ remote_value = 0
    /\ use_lock = lock
    /\ lock_owner = NoThread

\* No method of the Selection has been called, and no selection request sent.
NoCall == [op |-> "none", index |-> 0, obj |-> NoObj, before |-> <<>>]
NoSelectionRequest == [name |-> "", objects |-> <<>>]

\* The classes of the attributes of a members map.
Method == "PlxProxyObjectMethod"
Property == "PlxProxyObjectProperty"
IPObject == "PlxProxyIPObject"
\* The members the server can give for an object-valued property itself.
OwnMemberSets ==
    { <<>>,
      [n \in {"echo"} |-> Method],
      [n \in {"echo", "x"} |-> IF n = "echo" THEN Method ELSE Property] }
\* The entities that can be the value of the property; no entity is "".
Entities == {"A", "B", "C"}
NoEntity == ""
\* PlxProxyIPObject.__init__, lines 560-562, after PlxProxyObject.__init__:
\* both attribute maps are empty. The property has no value yet.
NoAccess == [reqs |-> 0, value |-> NoEntity, before |-> NoEntity]
InitIPObject(members) ==
    /\ ip_attrs = [attr_cache |-> <<>>, ip_attr_cache |-> <<>>]
    /\ wrapped = NoEntity
    /\ own_members = members
    /\ accessed = NoAccess

\* No exception has been raised, and the other histories are empty.
InitExt3 ==
    /\ message = <<>>
    /\ answer = NoAnswer
    /\ InitIPObject(<<>>)
    /\ selection_call = NoCall
    /\ selection_request = NoSelectionRequest
    /\ InitHost(FALSE)

InitExt == InitSelection /\ InitReturned /\ InitListable /\ InitEnumeration /\ InitExt2
           /\ InitExt3

Init == InitServer /\ InitExt

\* The keys that are cached now become stale.
Staled == [ns \in Namespaces |-> stale[ns] \cup DOMAIN seen[ns]]

\* An operation completes: what it did is recorded, the histories follow.
\* A read (ns is its cache) makes its key read; a mutating call makes the
\* cached keys stale when it resets the caches.
Complete(op, ns, key, w, owned) ==
    /\ Commit(w)
    /\ last' = [op |-> op, ns |-> ns, key |-> key, reqs |-> w.reqs, nested |-> w.nested,
                outcome |-> IF w.err = "" THEN "ok" ELSE "raised",
                res |-> IF w.err = "" THEN w.res ELSE ResNone,
                stale |-> ns # "" /\ key \in stale[ns],
                owned |-> owned /\ w.nested > 0]
    /\ seen' = IF w.didreset THEN EmptySeen
               ELSE IF ns # "" /\ w.err = "" /\ allow_caching
                    THEN [seen EXCEPT ![ns] = Put(@, key, w.res)]
                    ELSE seen
    /\ stale' = IF ns # "" THEN [stale EXCEPT ![ns] = @ \ {key}]
                ELSE IF op = "project" /\ w.didreset THEN Staled
                ELSE stale
    /\ selection_objects' = IF op = "selection" /\ w.err = ""
                            THEN [i \in DOMAIN w.res.items |-> w.res.items[i].v]
                            ELSE selection_objects
    /\ pc' = "idle"
    /\ pending' = Idle

\* An operation of the Server or the factory completes.
Done(op, ns, key, w, owned) ==
    /\ Complete(op, ns, key, w, owned)
    /\ UNCHANGED ext

\* An operation hands its request to the connection.
Sent(op, w) ==
    /\ pc = "idle"
    /\ Commit(w)
    /\ pc' = "wait"
    /\ pending' = op
    /\ last' = NoLast
    /\ seen' = IF w.didreset THEN EmptySeen ELSE seen
    /\ stale' = IF w.didreset THEN Staled ELSE stale
    /\ UNCHANGED <<allow_caching, selection_objects>>

\* An operation of the Server hands its request to the connection.
Issue(op, w) ==
    /\ Sent(op, w)
    /\ UNCHANGED ext

\* The responses a lookup can receive: none is received on a cache hit.
Received(hit, responses) == IF hit THEN {CHOOSE r \in responses : TRUE} ELSE responses

\* ------------------------------------------------------------------- reads
\* A call of Server.get_named_object
GetNamedObject(name) ==
    /\ pc = "idle"
    /\ \E resp \in Received(cache_hit(allow_caching, <<name>>, globals_cache),
                            NamedResponses) :
       \E mresp \in MembersAfter(<<resp.ro>>) :
       \E eresp \in EnumsAfter(<<resp.ro>>, mresp) :
         Done("get_named_object", "g", <<name>>,
              get_named_object(W, allow_caching, <<name>>, resp, mresp, eresp),
              NamesOwner(<<resp.ro>>))
    /\ UNCHANGED allow_caching

\* A call of Server.get_object_property
GetObjectProperty(o, prop, phase) ==
    /\ pc = "idle"
    /\ \E resp \in Received(cache_hit(allow_caching, <<heap[o].guid, prop, phase>>,
                                      values_cache),
                            PropertyResponses) :
       \E mresp \in MembersAfter(<<resp.attr>>) :
       \E eresp \in EnumsAfter(<<resp.attr>>, mresp) :
         Done("get_object_property", "v", <<heap[o].guid, prop, phase>>,
              get_object_property(W, allow_caching, <<heap[o].guid, prop, phase>>,
                                  resp, mresp, eresp),
              NamesOwner(<<resp.attr>>))
    /\ UNCHANGED allow_caching

\* A call of Server.call_listable_method
CallListableMethod(o, q) ==
    /\ pc = "idle"
    /\ \E resp \in Received(cache_hit(allow_caching,
                                      <<heap[o].guid, q[1], q[2], q[3], NoName>>,
                                      listables_cache),
                            ListResponses(q[1])) :
       \E mresp \in MembersAfter(resp.outputdata) :
       \E eresp \in EnumsAfter(resp.outputdata, mresp) :
         Done("call_listable_method", "l", <<heap[o].guid, q[1], q[2], q[3], NoName>>,
              call_listable_method(W, allow_caching,
                                   <<heap[o].guid, q[1], q[2], q[3], NoName>>,
                                   resp, mresp, eresp),
              NamesOwner(resp.outputdata))
    /\ UNCHANGED allow_caching

\* -------------------------------------------------------------- mutating calls
MutatingOps == {"call_plx_object_method", "set_object_property", "call_commands"}

\* Server.call_plx_object_method on a proxy, up to request_commands
CallPlxObjectMethod ==
    /\ heap # <<>>
    /\ Issue("call_plx_object_method", call_plx_object_method_begin(W))

\* Server.set_object_property on a proxy, up to request_commands
SetObjectProperty ==
    /\ heap # <<>>
    /\ Issue("set_object_property", set_object_property_begin(W))

\* Server.call_commands, up to request_commands
CallCommands ==
    Issue("call_commands", call_commands_begin(W))

\* The three of them, from the response of request_commands
CommandsResponse ==
    /\ pc = "wait"
    /\ pending \in MutatingOps
    /\ \E resp \in CommandResponses :
       \E mresp \in MembersAfter(resp.returnedobjects) :
       \E eresp \in EnumsAfter(resp.returnedobjects, mresp) :
         Done(pending, "", <<>>, commands_result(W, pending, resp, mresp, eresp),
              NamesOwner(resp.returnedobjects))
    /\ UNCHANGED allow_caching

\* Server.new / recover / open / close, up to request_environment: the four
\* differ in the command they send only.
ProjectCommand ==
    Issue("project", W)

\* Server.new / recover / open / close, from the result of request_environment
EnvironmentResponse ==
    /\ pc = "wait"
    /\ pending = "project"
    /\ \E result \in EnvironmentResults :
         Done("project", "", <<>>, project_result(W, result), FALSE)
    /\ UNCHANGED allow_caching

\* The allow_caching setter
SetAllowCaching(value) ==
    /\ pc = "idle"
    /\ allow_caching' = value
    /\ Done("allow_caching", "", <<>>, set_allow_caching(W, allow_caching, value), FALSE)

\* Server.reset_caches, called by the user
ResetCaches ==
    /\ pc = "idle"
    /\ Done("reset_caches", "", <<>>, reset_caches(W), FALSE)
    /\ UNCHANGED allow_caching

\* PlxProxyFactory.clear_proxy_object_cache, called by the user
ClearProxyObjectCache ==
    /\ pc = "idle"
    /\ Done("clear_proxy_object_cache", "", <<>>, clear_proxy_object_cache(W), FALSE)
    /\ UNCHANGED allow_caching

\* PlxProxyFactory.create_plx_proxy_object returns the proxy.
created(w1) == [w1 EXCEPT !.res = ResBare(Item(TRUE, w1.ret))]

\* A call of PlxProxyFactory.create_plx_proxy_object
CreatePlxProxyObject(ro, property_name, owner) ==
    /\ pc = "idle"
    /\ \E eresp \in EnumsAfter(<<ro>>, NoMembers) :
         Done("create_plx_proxy_object", "", <<ro.guid, ro.type>>,
              created(create_plx_proxy_object(W, ro.guid, ro.type, ro.islistable,
                                              property_name, owner, eresp)),
              FALSE)
    /\ UNCHANGED allow_caching

\* ------------------------------------------------------------ attribute access
\* The proxy classes with the PlxProxyListable mixin.
ListableClasses ==
    {"PlxProxyObjectListable", "PlxProxyObjectValues", "PlxProxyIPObjectListable",
     "PlxProxyObjectPropertyListable"}

\* The attr_cache property of a proxy whose class keeps
\* PlxProxyObject._ensure_cache_is_valid
GetAttr(o) ==
    /\ pc = "idle"
    /\ heap[o].cls \notin ListableClasses \cup {"PlxProxyIPObject"}
    /\ \E mresp \in Received(~attr_cache_missing(heap[o]), MembersResponses) :
       \E eresp \in EnumsAfter(<<>>, mresp) :
         Done("getattr", "", <<o>>, ensure_cache_is_valid(W, o, mresp, eresp), FALSE)
    /\ UNCHANGED allow_caching

\* ------------------------------------------------------------------ selection
\* Selection.refresh / set / append / remove through
\* Server.call_selection_command: the local selection becomes what the
\* server returned.
SelectionCommand ==
    /\ pc = "idle"
    /\ \E resp \in SelectionResponses :
       \E mresp \in MembersAfter(resp.selection) :
       \E eresp \in EnumsAfter(resp.selection, mresp) :
         Done("selection", "", <<>>, call_selection_command(W, resp, mresp, eresp),
              NamesOwner(resp.selection))
    /\ UNCHANGED allow_caching

\* ----------------------------------------------------------- specification
\* The proxy whose property and length are read: the first one of the entity
\* "g1" (a query is keyed by the token of its proxy).
ReadTargets ==
    {o \in DOMAIN heap : heap[o].guid = "g1" /\ \A p \in 1..(o - 1) : heap[p].guid # "g1"}
\* The same token with an enumeration type, as the property of an owner.
Kind == RetObj("g1", "enumKind", FALSE, NoOwner)
\* The arguments of the calls of create_plx_proxy_object: the entities with
\* the metadata the result handler passes, and a mapped token with the
\* metadata of a listable line and of an enumeration property.
CreateInputs ==
    { <<Soil, NoName, NoObj>> }
    \cup { <<Line, NoName, NoObj>> : g \in DOMAIN proxy_object_cache \cap {"g1"} }
    \cup { <<Kind, "Name", proxy_object_cache[g]>> :
             g \in DOMAIN proxy_object_cache \cap {"g1"} }
    \cup { <<Name, "Name", proxy_object_cache[g]>> :
             g \in DOMAIN proxy_object_cache \cap {"g1"} }

Next ==
    \/ \E name \in Names : GetNamedObject(name)
    \/ \E o \in ReadTargets, prop \in ReadProps, phase \in {NoObj} :
         GetObjectProperty(o, prop, phase)
    \/ \E o \in ReadTargets, q \in ListQueries : CallListableMethod(o, q)
    \/ CallPlxObjectMethod
    \/ SetObjectProperty
    \/ CallCommands
    \/ CommandsResponse
    \/ ProjectCommand
    \/ EnvironmentResponse
    \/ \E value \in BOOLEAN : SetAllowCaching(value)
    \/ ResetCaches
    \/ ClearProxyObjectCache
    \/ \E c \in CreateInputs : CreatePlxProxyObject(c[1], c[2], c[3])
    \/ \E o \in DOMAIN heap : GetAttr(o)
    \/ SelectionCommand

Spec == Init /\ [][Next]_vars

\* ------------------------------------------------------ the Selection object
\* Number of objects in a selection response.
MaxSel == 2

\* An entity without an owner, with the second token.
Point == RetObj("g2", "Point", FALSE, NoOwner)
\* The entities a selection response names.
SelectionEntities == {Soil, Point}
\* The selections of at most n entities.
Selections(n) == UNION { [1..k -> SelectionEntities] : k \in 0..n }
\* The responses to a selection request: the connection raises, or the
\* server returns the selection it now has.
SelectionObjectResponses ==
    { [raises |-> TRUE, selection |-> <<>>] }
    \cup { [raises |-> FALSE, selection |-> s] : s \in Selections(MaxSel) }

\* The commands of a selection request (const.py).
SELECTION_GET == "get"
SELECTION_SET == "set"
SELECTION_APPEND == "append"
SELECTION_REMOVE == "remove"

\* A variant of Selection.refresh that sends no request.
Selection_refresh_skip(w, resp) == [w EXCEPT !.res = ResList(<<>>)]

\* Selection.refresh, up to the assignment of _objects
Selection_refresh(w, resp) == call_selection_command(w, resp, NoMembers, "ok")
\* Selection.set, up to the assignment of _objects
Selection_set(w, resp) == call_selection_command(w, resp, NoMembers, "ok")
\* Selection.append, up to the assignment of _objects
Selection_append(w, resp) == call_selection_command(w, resp, NoMembers, "ok")
\* Selection.remove, up to the assignment of _objects
Selection_remove(w, resp) == call_selection_command(w, resp, NoMembers, "ok")

\* The tokens of a selection response, in its order.
Tokens(selection) == [i \in DOMAIN selection |-> selection[i].guid]

\* A selection command completes: _objects is assigned when the command has
\* returned, and the tokens of the response are recorded.
SelectionDone(command, w, resp) ==
    /\ Complete("selection", "", <<command>>, w, FALSE)
    /\ server_selection' = IF last'.outcome = "ok"
                           THEN Tokens(resp.selection)
                           ELSE server_selection
    /\ UNCHANGED <<allow_caching, res_vars, list_vars, enum_vars, ext2, ext3>>

\* Selection.refresh
SelRefresh ==
    /\ pc = "idle"
    /\ \E resp \in SelectionObjectResponses :
         SelectionDone(SELECTION_GET, Selection_refresh(W, resp), resp)

\* Selection.set and Selection.clear
SelSet ==
    /\ pc = "idle"
    /\ \E resp \in SelectionObjectResponses :
         SelectionDone(SELECTION_SET, Selection_set(W, resp), resp)

\* Selection.append, Selection.extend and Selection.__add__
SelAppend ==
    /\ pc = "idle"
    /\ \E resp \in SelectionObjectResponses :
         SelectionDone(SELECTION_APPEND, Selection_append(W, resp), resp)

\* Selection.remove and Selection.__sub__
SelRemove ==
    /\ pc = "idle"
    /\ \E resp \in SelectionObjectResponses :
         SelectionDone(SELECTION_REMOVE, Selection_remove(W, resp), resp)

\* An operation of the Selection that sends no request.
SelectionLocal(op, w) ==
    /\ Complete(op, "", <<>>, w, FALSE)
    /\ UNCHANGED <<allow_caching, ext>>

\* Selection.pop: the last object is removed, if there is one.
SelPop ==
    /\ pc = "idle"
    /\ IF Len(selection_objects) > 0
       THEN \E resp \in SelectionObjectResponses :
              SelectionDone(SELECTION_REMOVE, Selection_remove(W, resp), resp)
       ELSE SelectionLocal("pop", W)

\* Selection.__delitem__: _objects[index] raises IndexError for an index
\* that is out of range.
SelDelItem(index) ==
    /\ pc = "idle"
    /\ IF index \in DOMAIN selection_objects
       THEN \E resp \in SelectionObjectResponses :
              SelectionDone(SELECTION_REMOVE, Selection_remove(W, resp), resp)
       ELSE SelectionLocal("delitem", Raise(W, "IndexError"))

\* Selection.__setitem__, up to request_selection: the object is written
\* into _objects (line 81), then set sends the list (line 82).
SelSetItem(index, obj) ==
    /\ pc = "idle"
    /\ IF index \in DOMAIN selection_objects
       THEN /\ selection_objects' = [selection_objects EXCEPT ![index] = obj]
            /\ pc' = "wait"
            /\ pending' = "setitem"
            /\ last' = NoLast
            /\ UNCHANGED <<allow_caching, globals_cache, values_cache, listables_cache,
                           proxies_to_reset, proxy_object_cache, proxy_enum_classes, heap,
                           issued, seen, stale, ext>>
       ELSE SelectionLocal("setitem", Raise(W, "IndexError"))

\* Selection.__setitem__, from the response of request_selection
SelSetItemResponse ==
    /\ pc = "wait"
    /\ pending = "setitem"
    /\ \E resp \in SelectionObjectResponses :
         SelectionDone(SELECTION_SET, Selection_set(W, resp), resp)

\* The responses to the named-object request for "selection": the connection
\* raises, there is no such object, or there is one.
NamedSelectionResponses ==
    { [raises |-> TRUE, success |-> FALSE, ro |-> RetPrim(0), extrainfo |-> ""],
      [raises |-> FALSE, success |-> FALSE, ro |-> RetPrim(0), extrainfo |-> "error"],
      [raises |-> FALSE, success |-> TRUE, ro |-> Soil, extrainfo |-> ""] }

\* PlxProxyGlobalObject.selection, lines 126-131: a PlxScriptingError of the
\* lookup becomes an AttributeError, which is passed over, and __selection__
\* refreshes the Selection.
selection_or_refresh(w1, sresp) ==
    IF w1.oob \/ w1.err # "PlxScriptingError" THEN w1
    ELSE Selection_refresh([w1 EXCEPT !.err = ""], sresp)

\* PlxProxyGlobalObject.selection (the getter), for a global object whose
\* attribute cache holds no "selection"
global_selection(w, allow, nresp, sresp) ==
    selection_or_refresh(get_named_object(w, allow, <<"selection">>, nresp, NoMembers, "ok"),
                         sresp)

\* Does the lookup of "selection" find no named object?
NamedAbsent(hit, nresp) == ~hit /\ ~nresp.raises /\ ~nresp.success

\* A read of the selection property of the global object
ReadSelection ==
    /\ pc = "idle"
    /\ \E nresp \in Received(cache_hit(allow_caching, <<"selection">>, globals_cache),
                             NamedSelectionResponses) :
       \E sresp \in IF NamedAbsent(cache_hit(allow_caching, <<"selection">>, globals_cache),
                                   nresp)
                    THEN SelectionObjectResponses
                    ELSE { [raises |-> TRUE, selection |-> <<>>] } :
         /\ Complete(IF NamedAbsent(cache_hit(allow_caching, <<"selection">>,
                                              globals_cache), nresp)
                     THEN "selection" ELSE "named_selection",
                     "", <<"read">>, global_selection(W, allow_caching, nresp, sresp),
                     FALSE)
         /\ server_selection' = IF last'.op = "selection" /\ last'.outcome = "ok"
                                THEN Tokens(sresp.selection)
                                ELSE server_selection
    /\ UNCHANGED <<allow_caching, res_vars, list_vars, enum_vars, ext2, ext3>>

\* The objects that are written into the selection.
SetItemObjects == DOMAIN heap

NextSelection ==
    \/ \E name \in Names : GetNamedObject(name)
    \/ \E o \in DOMAIN heap : GetAttr(o)
    \/ SelRefresh
    \/ SelSet
    \/ SelAppend
    \/ SelRemove
    \/ SelPop
    \/ \E index \in 1..MaxSel : SelDelItem(index)
    \/ \E index \in 1..MaxSel, obj \in SetItemObjects : SelSetItem(index, obj)
    \/ SelSetItemResponse
    \/ ReadSelection

SpecSelection == Init /\ [][NextSelection]_vars

\* ------------------------------------------------ the result handler on its own
\* Number of returned objects in a response.
MaxRos == 2

\* What a response holds for a returned object: an entity, or a primitive
\* (0 is a valid result that is false in a boolean context).
ReturnedObjects == {Soil, Point, RetPrim(0), RetPrim(1)}
\* The returned-object lists of at most n objects.
ReturnedLists(n) == UNION { [1..k -> ReturnedObjects] : k \in 0..n }

\* The result handler has handled a response with the returned objects ros.
Handled(op, key, w, ros) ==
    /\ Complete(op, "", key, w, FALSE)
    /\ returned' = ros
    /\ UNCHANGED <<allow_caching, json_constructors, sel_vars, list_vars, enum_vars, ext2, ext3>>

\* The same, with the exception the handler has raised.
HandledOrRaised(op, key, w, ros) ==
    /\ Complete(op, "", key, w, FALSE)
    /\ returned' = ros
    /\ error' = w.err
    /\ UNCHANGED <<allow_caching, json_constructors, sel_vars, remote_count, iter, indexed,
                   queries, enum_vars, ext2, ext3>>

\* A call of ResultHandler._create_proxies_from_returned_objects
CreateProxiesFromReturnedObjects(ros, allow_one_item_list_result) ==
    /\ pc = "idle"
    /\ Handled("create_proxies_from_returned_objects", <<allow_one_item_list_result>>,
               create_proxies_from_returned_objects(W, ros, allow_one_item_list_result,
                                                    NoMembers, "ok"),
               ros)

\* A call of ResultHandler.handle_namedobjects_response with a successful
\* response
HandleNamedobjectsResponse(ro) ==
    /\ pc = "idle"
    /\ Handled("handle_namedobjects_response", <<>>,
               handle_namedobjects_response(W, [raises |-> FALSE, success |-> TRUE, ro |-> ro],
                                            NoMembers, "ok"),
               <<ro>>)

\* A call of ResultHandler.handle_commands_response with a successful
\* response
HandleCommandsResponse(ros, values, info) ==
    /\ pc = "idle"
    /\ Handled("handle_commands_response", <<>>,
               handle_commands_response(W, [raises |-> FALSE, success |-> TRUE,
                                            returnedobjects |-> ros,
                                            returnedvalues |-> values,
                                            extrainfo |-> info],
                                        NoMembers, "ok"),
               ros)

\* The list queries that return objects.
SliceMethods == {"sublist", "membersublist"}
IndexMethods == {"index", "memberindex"}

\* A call of ResultHandler.handle_list_response with a successful response
HandleListResponse(method, ros) ==
    /\ pc = "idle"
    /\ Handled("handle_list_response", <<method>>,
               handle_list_response(W, [raises |-> FALSE, success |-> TRUE,
                                        methodname |-> method, count |-> 0,
                                        outputdata |-> ros],
                                    NoMembers, "ok"),
               ros)

\* A call of ResultHandler.handle_selection_response
HandleSelectionResponse(ros) ==
    /\ pc = "idle"
    /\ Handled("handle_selection_response", <<>>,
               handle_selection_response(W, [raises |-> FALSE, selection |-> ros],
                                         NoMembers, "ok"),
               ros)

\* The responses that end with a property: its owner is the soil material
\* or an entity that was never received.
OwnedLists == {<<Name>>, <<Orphan>>, <<Soil, Orphan>>}

\* A call of ResultHandler._create_proxies_from_returned_objects with a
\* response that returns a property without its name.
HandleOwnedObject(ros, mresp) ==
    /\ pc = "idle"
    /\ HandledOrRaised("owned_object", <<mresp.raises>>,
                       create_proxies_from_returned_objects(W, ros, FALSE, mresp, "ok"),
                       ros)

\* The content types and the payloads of the JSON objects.
ContentTypes == {"image", "table"}
JsonPayloads ==
    { Payload(TRUE, c, 3) : c \in ContentTypes \cup {""} } \cup { Payload(FALSE, "", 4) }
JsonLists ==
    { <<RetJson(p)>> : p \in JsonPayloads } \cup { <<Soil, RetJson(p)>> : p \in JsonPayloads }

\* A call of ResultHandler.register_json_constructor
RegisterJsonConstructor(name, factory_function) ==
    /\ pc = "idle"
    /\ Complete("register_json_constructor", "", <<name>>, W, FALSE)
    /\ json_constructors' = Put(json_constructors, name, factory_function)
    /\ UNCHANGED <<allow_caching, returned, sel_vars, list_vars, enum_vars, ext2, ext3>>

\* A call of ResultHandler._create_proxies_from_returned_objects with a
\* response that returns a JSON object.
HandleJsonObject(ros) ==
    /\ pc = "idle"
    /\ HandledOrRaised("json_object", <<>>,
                       create_proxies_from_returned_objects(W, ros, FALSE, NoMembers, "ok"),
                       ros)

\* The interpretation of properties without a name and of JSON objects,
\* after the responses that return their owners.
NextInterpret ==
    \/ \E ro \in {Soil, Point} : HandleNamedobjectsResponse(ro)
    \/ \E ros \in OwnedLists, mresp \in MembersResponses : HandleOwnedObject(ros, mresp)
    \/ \E name \in ContentTypes, factory_function \in Constructors :
         RegisterJsonConstructor(name, factory_function)
    \/ \E ros \in JsonLists : HandleJsonObject(ros)

SpecInterpret == Init /\ [][NextInterpret]_vars

NextResults ==
    \/ \E ros \in ReturnedLists(MaxRos), allow \in BOOLEAN :
         CreateProxiesFromReturnedObjects(ros, allow)
    \/ \E ro \in ReturnedObjects : HandleNamedobjectsResponse(ro)
    \/ \E ros \in ReturnedLists(MaxRos), values \in {<<>>, <<7>>}, info \in {"", "OK"} :
         HandleCommandsResponse(ros, values, info)
    \/ \E method \in SliceMethods, ros \in ReturnedLists(MaxRos) :
         HandleListResponse(method, ros)
    \/ \E method \in IndexMethods, ro \in ReturnedObjects :
         HandleListResponse(method, <<ro>>)
    \/ \E ros \in ReturnedLists(MaxRos) : HandleSelectionResponse(ros)

SpecResults == Init /\ [][NextResults]_vars

\* ------------------------------------------------------- PlxProxyListable
\* PlxProxyListable.ITER_CACHE_COUNT
ITER_CACHE_COUNT == 100
\* Number of full windows of the longest collection.
MaxPages == 2
\* Number of iterations started.
MaxRuns == 2

\* The lengths of the remote collection: around the multiples of the window.
Lengths ==
    { n \in 0..(MaxPages * ITER_CACHE_COUNT + 1) :
        n % ITER_CACHE_COUNT \in {0, 1, ITER_CACHE_COUNT - 1} }

Min(a, b) == IF a < b THEN a ELSE b

\* The element of the remote collection at an index: an entity first, then
\* numbers.
Element(i) == IF i = 0 THEN Point ELSE RetPrim(i)

\* The key of a list query of the collection (server.py, line 669).
ListKey(guid, method, startindex, stopindex) ==
    <<guid, method, startindex, stopindex, NoName>>

\* The connection raises.
ListRaises ==
    [raises |-> TRUE, success |-> FALSE, methodname |-> "", count |-> 0, outputdata |-> <<>>,
     extrainfo |-> ""]

\* The answer of the server to a list query of a collection of n elements:
\* its length, the elements of a range cut to the collection, or the element
\* at an index of the collection.
RemoteList(method, startindex, stopindex, n) ==
    [raises |-> FALSE,
     success |-> method = "index" => startindex \in 0..(n - 1),
     methodname |-> method,
     count |-> n,
     extrainfo |-> IF method = "index" /\ startindex \notin 0..(n - 1) THEN "error" ELSE "",
     outputdata |->
        IF method = "sublist"
        THEN [i \in 1..(Min(stopindex, n) - startindex) |-> Element(startindex + i - 1)]
        ELSE IF method = "index" THEN <<Element(startindex)>>
        ELSE <<>>]

\* What request_list can give for a list query.
ListAnswers(method, startindex, stopindex) ==
    {ListRaises, RemoteList(method, startindex, stopindex, remote_count)}

\* PlxProxyListable.__len__
Listable_len(w, allow, guid, cresp) ==
    call_listable_method(w, allow, ListKey(guid, "count", NoIndex, NoIndex), cresp,
                         NoMembers, "ok")

\* A variant of the range check of __getitem__ that lets every index pass.
index_out_of_range_never(key, length) == FALSE

\* PlxProxyListable.__getitem__, line 305: key >= len(self)
index_out_of_range(key, length) == key >= length

\* PlxProxyListable.__getitem__, lines 305-308, with the length len(self)
\* has returned
getitem_after_len(w1, allow, guid, key, iresp) ==
    IF Failed(w1) THEN w1
    ELSE IF index_out_of_range(key.start, w1.res.items[1].v) THEN Raise(w1, "IndexError")
    ELSE call_listable_method(w1, allow, ListKey(guid, "index", key.start, NoIndex), iresp,
                              NoMembers, "ok")

\* The keys of __getitem__: an int, a slice, or another object.
IntKey(k) == [kind |-> "int", start |-> k, stop |-> NoIndex]
SliceKey(a, b) == [kind |-> "slice", start |-> a, stop |-> b]
StrKey == [kind |-> "str", start |-> NoIndex, stop |-> NoIndex]

\* PlxProxyListable.__getitem__
Listable_getitem(w, allow, guid, key, cresp, iresp) ==
    IF key.kind = "slice"
    THEN call_listable_method(w, allow, ListKey(guid, "sublist", key.start, key.stop), iresp,
                              NoMembers, "ok")
    ELSE IF key.kind # "int" THEN Raise(w, "TypeError")
    ELSE getitem_after_len(Listable_len(w, allow, guid, cresp), allow, guid, key, iresp)

\* PlxProxyListable.__setitem__, with self[key] evaluated, up to
\* request_commands
setitem_after_get(w1) ==
    IF Failed(w1) THEN w1 ELSE set_object_property_begin(w1)

\* PlxProxyListable.__setitem__, up to request_commands
Listable_setitem(w, allow, guid, key, cresp, iresp) ==
    setitem_after_get(Listable_getitem(w, allow, guid, key, cresp, iresp))

\* A variant of cache_end that asks for all that is left.
cache_end_all(cache_start, length) == length

\* PlxProxyListable.__iter__, line 321: cache_end
cache_end(cache_start, length) == Min(cache_start + ITER_CACHE_COUNT, length)

\* A variant that cuts the window to the length the collection has now.
Listable_window_current(w, allow, guid, cache_start, length, sresp) ==
    call_listable_method(w, allow,
                         ListKey(guid, "sublist", cache_start,
                                 cache_end(cache_start, remote_count)),
                         sresp, NoMembers, "ok")

\* PlxProxyListable.__iter__, lines 321-325: the next window
Listable_window(w, allow, guid, cache_start, length, sresp) ==
    call_listable_method(w, allow,
                         ListKey(guid, "sublist", cache_start, cache_end(cache_start, length)),
                         sresp, NoMembers, "ok")

\* PlxProxyListable.__iter__, line 327: the loop over iter_cache raises
\* TypeError for a result that is no list.
iterable(w1) ==
    IF Failed(w1) \/ w1.res.kind = "list" THEN w1 ELSE Raise(w1, "TypeError")

\* The collection: the proxy of the token "g1", a listable line.
TheList == proxy_object_cache["g1"]
HasList == "g1" \in DOMAIN proxy_object_cache

\* The factory creates the proxy of the collection.
CreateListable ==
    /\ heap = <<>>
    /\ CreatePlxProxyObject(Line, NoName, NoObj)

\* An operation on the collection completes.
ListDone(op, key, w) ==
    /\ Complete(op, "", key, w, FALSE)
    /\ queries' = w.sent
    /\ error' = w.err
    /\ UNCHANGED <<allow_caching, remote_count, sel_vars, res_vars, enum_vars, ext2, ext3>>

\* The cached result of a list query is there.
ListHit(method, startindex, stopindex) ==
    cache_hit(allow_caching, ListKey("g1", method, startindex, stopindex), listables_cache)

\* iter(collection) and the first next(): cache_start = 0, length = len(self)
IterStart ==
    /\ pc = "idle"
    /\ HasList
    /\ iter.pc # "running"
    /\ iter.runs < MaxRuns
    /\ indexed = <<>>
    /\ \E cresp \in Received(ListHit("count", NoIndex, NoIndex),
                             ListAnswers("count", NoIndex, NoIndex)) :
         LET w == Listable_len(W, allow_caching, "g1", cresp) IN
           /\ ListDone("iter", <<>>, w)
           /\ iter' = IF Failed(w)
                      THEN [NoIter EXCEPT !.pc = "raised", !.runs = iter.runs + 1]
                      ELSE [NoIter EXCEPT !.pc = "running", !.runs = iter.runs + 1,
                                          !.length = w.res.items[1].v]
           /\ UNCHANGED indexed

\* The generator runs on: the next window is fetched and its elements are
\* yielded, or the loop ends.
IterNext ==
    /\ pc = "idle"
    /\ iter.pc = "running"
    /\ IF iter.cache_start < iter.length
       THEN \E sresp \in Received(ListHit("sublist", iter.cache_start,
                                          cache_end(iter.cache_start, iter.length)),
                                  ListAnswers("sublist", iter.cache_start,
                                              cache_end(iter.cache_start, iter.length))) :
              LET w == iterable(Listable_window(W, allow_caching, "g1", iter.cache_start,
                                                iter.length, sresp))
              IN /\ ListDone("next", <<iter.cache_start>>, w)
                 /\ iter' = IF Failed(w) THEN [iter EXCEPT !.pc = "raised"]
                            ELSE [iter EXCEPT
                                    !.windows =
                                        Append(@, <<iter.cache_start,
                                                    cache_end(iter.cache_start, iter.length)>>),
                                    !.cache_start = cache_end(iter.cache_start, iter.length),
                                    !.yielded = @ \o w.res.items]
       ELSE /\ ListDone("stop", <<>>, W)
            /\ iter' = [iter EXCEPT !.pc = "done"]
    /\ UNCHANGED indexed

\* collection[k]: after an iteration the collection is read by index, from
\* 0 on; before, with an index behind its end.
GetItem(k) ==
    /\ pc = "idle"
    /\ HasList
    /\ IF k = Len(indexed) /\ k < remote_count THEN iter.pc = "done" ELSE indexed = <<>>
    /\ \E cresp \in Received(ListHit("count", NoIndex, NoIndex),
                             ListAnswers("count", NoIndex, NoIndex)) :
       \E iresp \in Received(ListHit("index", k, NoIndex) \/ k >= remote_count,
                             ListAnswers("index", k, NoIndex)) :
         LET w == Listable_getitem(W, allow_caching, "g1", IntKey(k), cresp, iresp) IN
           /\ ListDone("getitem", <<k>>, w)
           /\ indexed' = IF Failed(w) THEN indexed ELSE Append(indexed, w.res.items[1])
    /\ UNCHANGED iter

\* collection[a:b]
GetSlice(a, b) ==
    /\ pc = "idle"
    /\ HasList
    /\ indexed = <<>>
    /\ \E sresp \in Received(ListHit("sublist", a, b), ListAnswers("sublist", a, b)) :
         ListDone("getslice", <<a, b>>,
                  Listable_getitem(W, allow_caching, "g1", SliceKey(a, b), ListRaises, sresp))
    /\ UNCHANGED <<iter, indexed>>

\* collection["0"]
GetBadKey ==
    /\ pc = "idle"
    /\ HasList
    /\ indexed = <<>>
    /\ ListDone("getitem_str", <<>>,
                Listable_getitem(W, allow_caching, "g1", StrKey, ListRaises, ListRaises))
    /\ UNCHANGED <<iter, indexed>>

\* collection[k] = value, up to request_commands
SetItem(k) ==
    /\ pc = "idle"
    /\ HasList
    /\ indexed = <<>>
    /\ \E cresp \in Received(ListHit("count", NoIndex, NoIndex),
                             ListAnswers("count", NoIndex, NoIndex)) :
       \E iresp \in Received(ListHit("index", k, NoIndex) \/ k >= remote_count,
                             ListAnswers("index", k, NoIndex)) :
         LET w == Listable_setitem(W, allow_caching, "g1", IntKey(k), cresp, iresp) IN
           IF Failed(w)
           THEN ListDone("setitem", <<k>>, w)
           ELSE /\ Sent("set_object_property", w)
                /\ queries' = w.sent
                /\ error' = ""
                /\ UNCHANGED <<remote_count, sel_vars, res_vars, enum_vars, ext2, ext3>>
    /\ UNCHANGED <<iter, indexed>>

\* The indices the collection is read and written at: the next one, the
\* length and an index behind it.
GetKeys == {Len(indexed), remote_count, remote_count + 1}
SetKeys == {0, remote_count, remote_count + 1}

NextList ==
    \/ CreateListable
    \/ IterStart
    \/ IterNext
    \/ \E k \in GetKeys : GetItem(k)
    \/ GetSlice(0, 1)
    \/ GetBadKey
    \/ \E k \in SetKeys : SetItem(k)
    \/ CommandsResponse

\* A remote collection of one of the lengths.
InitList ==
    /\ InitServer
    /\ InitSelection
    /\ InitReturned
    /\ InitIteration
    /\ InitEnumeration
    /\ InitExt2
    /\ InitExt3
    /\ remote_count \in Lengths

SpecList == InitList /\ [][NextList]_vars

\* --------------------------------------------------- PlxProxyIPEnumeration
\* The largest ordinal of a symbolic table.
MaxOrdinal == 1

\* The names of an enumeration and the ordinals of its table; the server
\* can hold one ordinal more.
EnumNames == {"A", "B"}
TableOrdinals == 0..MaxOrdinal
RemoteOrdinals == 0..(MaxOrdinal + 1)

\* The tables: enum_dict in the order of the class dict, a name once.
Tables ==
    { t \in UNION { [1..n -> EnumNames \X TableOrdinals] : n \in 0..2 } :
        \A i \in DOMAIN t : \A j \in DOMAIN t : t[i][1] = t[j][1] => i = j }

\* The keys of enum_dict
enum_keys(t) == { t[i][1] : i \in DOMAIN t }
\* enum_dict[string]
enum_value(t, string) == t[CHOOSE i \in DOMAIN t : t[i][1] = string][2]
\* The places of the items of enum_dict with a value.
places(t, value) == { i \in DOMAIN t : t[i][2] = value }
\* The first key of enum_dict with a value (strvalue, lines 646-648).
first_key(t, value) ==
    t[CHOOSE i \in places(t, value) : \A j \in places(t, value) : i <= j][1]

\* The enumeration property of the material, and the proxy of it.
EnumProperty == RetObj("g2", "enumKind", FALSE, "g1")
IsEnumeration(o) == heap[o].cls = "PlxProxyIPEnumeration"
HasEnumeration == \E o \in DOMAIN heap : IsEnumeration(o)
TheEnumeration == CHOOSE o \in DOMAIN heap : IsEnumeration(o)

\* A variant of value that takes a staged value that is false for none.
PlxProxyObjectProperty_value_truthy(w, allow, staged, key, resp) ==
    IF staged # NoOrdinal /\ staged # 0
    THEN [w EXCEPT !.res = ResBare(Item(FALSE, staged))]
    ELSE get_object_property(w, allow, key, resp, NoMembers, "ok")

\* PlxProxyObjectProperty.value
PlxProxyObjectProperty_value(w, allow, staged, key, resp) ==
    IF staged # NoOrdinal
    THEN [w EXCEPT !.res = ResBare(Item(FALSE, staged))]
    ELSE get_object_property(w, allow, key, resp, NoMembers, "ok")

\* A variant of the strvalue getter that returns None for a value without
\* a name.
name_of_value_or_none(w1, t) ==
    IF Failed(w1) THEN w1
    ELSE IF w1.res.kind # "bare" \/ places(t, w1.res.items[1].v) = {}
         THEN [w1 EXCEPT !.res = ResNone]
    ELSE [w1 EXCEPT !.res = ResBare(Item(FALSE, first_key(t, w1.res.items[1].v)))]

\* PlxProxyIPEnumeration.strvalue (getter), lines 646-652, with the value
\* read
name_of_value(w1, t) ==
    IF Failed(w1) THEN w1
    ELSE IF w1.res.kind # "bare" \/ places(t, w1.res.items[1].v) = {}
         THEN Raise(w1, "ValueError")
    ELSE [w1 EXCEPT !.res = ResBare(Item(FALSE, first_key(t, w1.res.items[1].v)))]

\* PlxProxyIPEnumeration.strvalue (getter)
strvalue(w, allow, t, staged, key, resp) ==
    name_of_value(PlxProxyObjectProperty_value(w, allow, staged, key, resp), t)

\* PlxProxyIPEnumeration.strvalue (setter), up to request_commands
strvalue_set(w, t, string) ==
    IF string \notin enum_keys(t) THEN Raise(w, "ValueError")
    ELSE set_object_property_begin(w)

\* A variant of the assignment that does not read the attribute first.
setattr_strvalue_unread(w, allow, t, staged, key, resp, string) ==
    strvalue_set(w, t, string)

\* PlxProxyObject.__setattr__ with the name strvalue: the attribute is read
\* first (super().__getattribute__ runs the getter of the property, and only
\* AttributeError is caught), then the setter of the property runs.
setattr_strvalue(w, allow, t, staged, key, resp, string) ==
    LET w1 == strvalue(w, allow, t, staged, key, resp) IN
      IF Failed(w1) THEN w1 ELSE strvalue_set(w1, t, string)

\* The responses to the propertyvalues request for the enumeration
\* property: the connection raises, or the server returns its value.
EnumValueResponses ==
    { [kind |-> "raise", attr |-> RetPrim(0)],
      [kind |-> "prim", attr |-> RetPrim(remote_ordinal)] }

\* The members response names the enumeration property of the material:
\* the factory creates its proxy (create_plx_proxy_object with an owner).
CreateEnumeration ==
    /\ ~HasEnumeration
    /\ "g1" \in DOMAIN proxy_object_cache
    /\ CreatePlxProxyObject(EnumProperty, "Kind", proxy_object_cache["g1"])

\* The owner of the enumeration property is created.
CreateOwner ==
    /\ ~HasEnumeration
    /\ CreatePlxProxyObject(Soil, NoName, NoObj)

\* ResultHandler._create_stagedIP_proxy: the proxy of a staged enumeration
\* property, without an owner, holds the value of the response.
create_stagedIP_proxy(w, eresp) ==
    create_plx_proxy_property(w, EnumProperty.guid, EnumProperty.type, FALSE, "Kind", NoObj,
                              eresp)

\* An operation on the enumeration property completes.
EnumDone(op, key, w) ==
    /\ Complete(op, "", key, w, FALSE)
    /\ error' = w.err
    /\ UNCHANGED <<allow_caching, enum_dict, sel_vars, res_vars, ext2, ext3, remote_count, iter,
                   indexed, queries>>

\* A property of a staged owner is read: _create_stagedIP_proxy
CreateStagedEnumeration ==
    /\ pc = "idle"
    /\ ~HasEnumeration
    /\ \E eresp \in EnumResponses :
         LET w == create_stagedIP_proxy(W, eresp) IN
           /\ EnumDone("create_stagedIP_proxy", <<>>, w)
           /\ stagedIP_value' = IF Failed(w) THEN stagedIP_value ELSE remote_ordinal
    /\ UNCHANGED <<remote_ordinal, requested, assigned>>

\* The key of the property value in the values cache.
ValueKey ==
    <<IF heap[TheEnumeration].owner = NoObj THEN NoOwner
      ELSE heap[heap[TheEnumeration].owner].guid,
      heap[TheEnumeration].property_name, NoObj>>

\* A read of strvalue
StrvalueGet ==
    /\ pc = "idle"
    /\ HasEnumeration
    /\ \E resp \in Received(stagedIP_value # NoOrdinal
                            \/ cache_hit(allow_caching, ValueKey, values_cache),
                            EnumValueResponses) :
         EnumDone("strvalue", <<>>,
                  strvalue(W, allow_caching, enum_dict, stagedIP_value, ValueKey, resp))
    /\ UNCHANGED <<remote_ordinal, stagedIP_value, requested, assigned>>

\* A read of value
ValueGet ==
    /\ pc = "idle"
    /\ HasEnumeration
    /\ \E resp \in Received(stagedIP_value # NoOrdinal
                            \/ cache_hit(allow_caching, ValueKey, values_cache),
                            EnumValueResponses) :
         EnumDone("value", <<>>,
                  PlxProxyObjectProperty_value(W, allow_caching, stagedIP_value, ValueKey,
                                               resp))
    /\ UNCHANGED <<remote_ordinal, stagedIP_value, requested, assigned>>

\* An assignment to strvalue, up to request_commands
StrvalueSet(string) ==
    /\ pc = "idle"
    /\ HasEnumeration
    /\ \E resp \in Received(stagedIP_value # NoOrdinal
                            \/ cache_hit(allow_caching, ValueKey, values_cache),
                            EnumValueResponses) :
         LET w == setattr_strvalue(W, allow_caching, enum_dict, stagedIP_value, ValueKey,
                                   resp, string) IN
           IF Failed(w)
           THEN /\ EnumDone("strvalue_set", <<string>>, w)
                /\ UNCHANGED <<requested, assigned>>
           ELSE /\ Sent("set_object_property", w)
                /\ requested' = [name |-> string, ordinal |-> enum_value(enum_dict, string)]
                /\ assigned' = NoName
                /\ error' = ""
                /\ UNCHANGED <<enum_dict, sel_vars, res_vars, ext2, ext3, remote_count, iter, indexed,
                               queries>>
    /\ UNCHANGED <<remote_ordinal, stagedIP_value>>

\* The assignment, from the response of request_commands: a successful
\* command has set the value at the server.
StrvalueSetResponse ==
    /\ pc = "wait"
    /\ pending = "set_object_property"
    /\ \E resp \in CommandResponses :
         /\ EnumDone("set_object_property", <<>>,
                     commands_result(W, pending, resp, NoMembers, "ok"))
         /\ remote_ordinal' = IF resp.success THEN requested.ordinal ELSE remote_ordinal
         /\ assigned' = IF resp.success THEN requested.name ELSE NoName
    /\ UNCHANGED <<stagedIP_value, requested>>

\* The names that are assigned: those of the enumerations, and another one.
AssignedNames == EnumNames \cup {"C"}

NextEnum ==
    \/ CreateOwner
    \/ CreateEnumeration
    \/ CreateStagedEnumeration
    \/ StrvalueGet
    \/ ValueGet
    \/ \E string \in AssignedNames : StrvalueSet(string)
    \/ StrvalueSetResponse

\* An enumeration with one of the tables, the server with one of the values.
InitEnum ==
    /\ InitServer
    /\ InitSelection
    /\ InitReturned
    /\ InitListable
    /\ InitProperty
    /\ InitExt2
    /\ InitExt3
    /\ enum_dict \in Tables
    /\ remote_ordinal \in RemoteOrdinals

SpecEnum == InitEnum /\ [][NextEnum]_vars
\* ------------------------------------------- the enumerations of the factory
\* The tokens of the enumeration properties that are resolved.
SchemaTokens == {"g2", "g3"}

\* An operation of the factory completes: the enumeration requests it made
\* with success are counted by the name of the enumeration.
SchemaDone(op, guid, plx_type, w, eresp) ==
    /\ Complete(op, "", <<guid, plx_type>>, w, FALSE)
    /\ schema_requests' =
         [schema_requests EXCEPT ![plx_type] = @ + (IF eresp = "ok" THEN w.nested ELSE 0)]
    /\ UNCHANGED <<allow_caching, sel_vars, res_vars, list_vars, enum_vars, ext3, staged_vars, attr_vars, global_vars>>

\* The owner of the enumeration properties is created.
CreateSchemaOwner ==
    /\ heap = <<>>
    /\ CreatePlxProxyObject(Soil, NoName, NoObj)

\* A property with an enumeration type is resolved for its owner:
\* create_plx_proxy_object with an owner.
ResolveEnumeration(guid, plx_type, owner) ==
    /\ pc = "idle"
    /\ \E eresp \in EnumResponses :
         SchemaDone("create_plx_proxy_object", guid, plx_type,
                    created(create_plx_proxy_object(W, guid, plx_type, FALSE, "Kind", owner,
                                                    eresp)),
                    eresp)

\* A property with an enumeration type of a staged owner is resolved:
\* _create_stagedIP_proxy calls _create_plx_proxy_property without an owner.
ResolveStagedEnumeration(guid, plx_type) ==
    /\ pc = "idle"
    /\ \E eresp \in EnumResponses :
         SchemaDone("create_stagedIP_proxy", guid, plx_type,
                    created(create_plx_proxy_property(W, guid, plx_type, FALSE, "Kind", NoObj,
                                                      eresp)),
                    eresp)

NextSchema ==
    \/ CreateSchemaOwner
    \/ \E guid \in SchemaTokens, plx_type \in EnumTags, owner \in DOMAIN heap :
         ResolveEnumeration(guid, plx_type, owner)
    \/ \E guid \in SchemaTokens, plx_type \in EnumTags :
         ResolveStagedEnumeration(guid, plx_type)
    \/ ClearProxyObjectCache
    \/ ProjectCommand
    \/ EnvironmentResponse

SpecSchema == Init /\ [][NextSchema]_vars

\* ------------------------------------------------------------ PlxProxyIPStaged
\* The staged property of the material, and the proxy of it.
StagedProperty == RetObj("g2", "stagedNumber", FALSE, "g1")
IsStaged(o) == heap[o].cls = "PlxProxyIPStaged"
HasStaged == \E o \in DOMAIN heap : IsStaged(o)
TheStaged == CHOOSE o \in DOMAIN heap : IsStaged(o)

\* The keys of obj[key]: a proxy object (isinstance(key, PlxProxyObject)),
\* or an integer.
ProxyKey(o) == [isproxy |-> TRUE, v |-> o]
IntegerKey(i) == [isproxy |-> FALSE, v |-> i]
StagedKeys == { ProxyKey(o) : o \in DOMAIN heap } \cup { IntegerKey(0) }

\* The values that are assigned: None, a literal, a property proxy that is
\* not staged (with the value it holds, or none: it asks the server), and a
\* staged property proxy.
StagedValue(kind, v, pinned) == [kind |-> kind, v |-> v, pinned |-> pinned]
StagedValues ==
    { StagedValue("none", 0, NoOrdinal),
      StagedValue("literal", 0, NoOrdinal),
      StagedValue("literal", 5, NoOrdinal),
      StagedValue("property", 0, 0),
      StagedValue("property", 0, NoOrdinal),
      StagedValue("staged", 0, NoOrdinal) }

\* The owner of a proxy, as the first part of the key of its values.
OwnerGuid(o) == IF heap[o].owner = NoObj THEN NoOwner ELSE heap[heap[o].owner].guid
\* The key of obj[phase] in the values cache (server.py, line 718).
StagedKey(key) == <<OwnerGuid(TheStaged), heap[TheStaged].property_name, key.v>>
\* The key of the value of a property proxy that is assigned.
AssignedKey == <<"g1", "Name", NoObj>>

\* The responses to the propertyvalues requests: the connection raises, or
\* the server returns a number.
StagedValueResponses ==
    { [kind |-> "raise", attr |-> RetPrim(0)], [kind |-> "prim", attr |-> RetPrim(1)] }

\* PlxProxyIPStaged.__getitem__
PlxProxyIPStaged_getitem(w, allow, key, valuekey, resp) ==
    IF ~key.isproxy THEN Raise(w, "TypeError")
    ELSE get_object_property(w, allow, valuekey, resp, NoMembers, "ok")

\* PlxProxyIPStaged.__setitem__, lines 704-706: a property proxy that is not
\* staged is replaced by its value.
dereferenced(w, allow, value, resp) ==
    CASE value.kind = "property" ->
           PlxProxyObjectProperty_value(w, allow, value.pinned, AssignedKey, resp)
      [] value.kind = "staged" -> [w EXCEPT !.res = ResBare(Item(TRUE, TheStaged))]
      [] OTHER -> [w EXCEPT !.res = ResBare(Item(FALSE, value.v))]

\* PlxProxyIPStaged.__setitem__, line 708: set_object_property with the
\* list [phase_object, value], up to request_commands.
staged_set(w1, key) ==
    IF Failed(w1) THEN [w |-> w1, params |-> <<>>]
    ELSE [w |-> set_object_property_begin(w1), params |-> <<key, w1.res.items[1]>>]

\* A variant of __setitem__ that sets None as it sets a value.
PlxProxyIPStaged_setitem_none(w, allow, key, value, resp) ==
    staged_set(dereferenced(w, allow, value, resp), key)

\* PlxProxyIPStaged.__setitem__: what it leaves, and the parameters of the
\* property set it sends (none when it returns before).
PlxProxyIPStaged_setitem(w, allow, key, value, resp) ==
    IF value.kind = "none" THEN [w |-> [w EXCEPT !.res = ResNone], params |-> <<>>]
    ELSE staged_set(dereferenced(w, allow, value, resp), key)

\* The members response names the staged property of the material.
CreateStagedOwner ==
    /\ heap = <<>>
    /\ CreatePlxProxyObject(Soil, NoName, NoObj)

CreateStaged ==
    /\ ~HasStaged
    /\ "g1" \in DOMAIN proxy_object_cache
    /\ CreatePlxProxyObject(StagedProperty, "Stage", proxy_object_cache["g1"])

\* An operation on the staged property completes.
StagedDone(op, key, w) ==
    /\ Complete(op, "", key, w, FALSE)
    /\ error' = w.err
    /\ UNCHANGED <<allow_caching, sel_vars, res_vars, enum_vars, ext3, fac_vars, attr_vars, global_vars, remote_count,
                   iter, indexed, queries>>

\* obj[key]
StagedGetItem(key) ==
    /\ pc = "idle"
    /\ HasStaged
    /\ \E resp \in Received(~key.isproxy
                            \/ cache_hit(allow_caching, StagedKey(key), values_cache),
                            StagedValueResponses) :
         StagedDone("staged_getitem", <<key>>,
                    PlxProxyIPStaged_getitem(W, allow_caching, key, StagedKey(key), resp))
    /\ UNCHANGED staged_request

\* for x in obj: the iterator of a class with __getitem__ and no __iter__
\* calls obj[0] first.
StagedIter ==
    /\ pc = "idle"
    /\ HasStaged
    /\ \E resp \in Received(TRUE, StagedValueResponses) :
         StagedDone("staged_iter", <<IntegerKey(0)>>,
                    PlxProxyIPStaged_getitem(W, allow_caching, IntegerKey(0),
                                             StagedKey(IntegerKey(0)), resp))
    /\ UNCHANGED staged_request

\* obj[key] = value, up to request_commands
StagedSetItem(key, value) ==
    /\ pc = "idle"
    /\ HasStaged
    /\ \E resp \in Received(value.kind # "property" \/ value.pinned # NoOrdinal
                            \/ cache_hit(allow_caching, AssignedKey, values_cache),
                            StagedValueResponses) :
         LET r == PlxProxyIPStaged_setitem(W, allow_caching, key, value, resp) IN
           IF r.params = <<>>
           THEN /\ StagedDone("staged_setitem", <<key, value>>, r.w)
                /\ UNCHANGED staged_request
           ELSE /\ Sent("set_object_property", r.w)
                /\ staged_request' = [key |-> key, value |-> value, params |-> r.params]
                /\ error' = ""
                /\ UNCHANGED <<sel_vars, res_vars, enum_vars, ext3, fac_vars, attr_vars, global_vars, remote_count, iter,
                               indexed, queries>>

\* The response to the property set
StagedSetResponse ==
    /\ pc = "wait"
    /\ pending = "set_object_property"
    /\ \E resp \in CommandResponses :
         StagedDone("set_object_property", <<>>,
                    commands_result(W, pending, resp, NoMembers, "ok"))
    /\ UNCHANGED staged_request

NextStaged ==
    \/ CreateStagedOwner
    \/ CreateStaged
    \/ \E key \in StagedKeys : StagedGetItem(key)
    \/ StagedIter
    \/ \E key \in StagedKeys, value \in StagedValues : StagedSetItem(key, value)
    \/ StagedSetResponse
    \/ \E o \in DOMAIN heap : GetAttr(o)

SpecStaged == Init /\ [][NextStaged]_vars

\* ------------------------------------------------------- the attribute cache
\* The attr_cache property of a proxy: the members that were requested and
\* returned are recorded for the proxy.
AttrCache(o) ==
    /\ pc = "idle"
    /\ heap[o].cls \notin ListableClasses \cup {"PlxProxyIPObject"}
    /\ \E mresp \in Received(~attr_cache_missing(heap[o]), MembersResponses) :
         LET w == ensure_cache_is_valid(W, o, mresp, "ok") IN
           /\ Complete("attr_cache", "", <<o>>, w, FALSE)
           /\ members_fetched' = IF w.reqs > 0 /\ ~Failed(w) THEN members_fetched \cup {o}
                                 ELSE members_fetched
    /\ UNCHANGED <<allow_caching, sel_vars, res_vars, list_vars, enum_vars, ext3, fac_vars,
                   staged_vars, global_vars>>

\* The proxies that are created: a material, whose attribute cache the
\* server resets, and a point.
AttrInputs == {Soil, Point}

NextAttr ==
    \/ \E ro \in AttrInputs : CreatePlxProxyObject(ro, NoName, NoObj)
    \/ \E o \in DOMAIN heap : AttrCache(o)
    \/ CallPlxObjectMethod
    \/ CommandsResponse

SpecAttr == Init /\ [][NextAttr]_vars

\* ------------------------------------------------------- PlxProxyGlobalObject
\* The attribute names that are resolved on the global object.
GlobalNames == {"Soil", "move"}
\* The members responses for the global object: the connection raises, or
\* the server returns its commands.
GlobalMembersResponses ==
    { [raises |-> TRUE, commands |-> {}, properties |-> <<>>],
      NoMembers,
      [raises |-> FALSE, commands |-> {"move"}, properties |-> <<>>] }

\* A resolution: the program state, the attribute cache of the global
\* object and the steps taken ("map": the attribute is taken from the
\* attribute cache; "named": get_named_object is called; "members": the
\* attribute cache is refilled).
Resolution(w, attrs, steps) == [w |-> w, attrs |-> attrs, steps |-> steps]

\* PlxProxyGlobalObject._getattr, lines 109-114: a PlxScriptingError of the
\* lookup becomes an AttributeError.
named_or_attribute_error(w1) ==
    IF w1.err = "PlxScriptingError" THEN [w1 EXCEPT !.err = "AttributeError"] ELSE w1

\* PlxProxyGlobalObject._getattr
PlxProxyGlobalObject_getattr(r, allow, attr_name, nresp) ==
    IF attr_name \in r.attrs
    THEN Resolution([r.w EXCEPT !.res = ResBare(Item(FALSE, attr_name))], r.attrs,
                    Append(r.steps, "map"))
    ELSE Resolution(named_or_attribute_error(
                        get_named_object(r.w, allow, <<attr_name>>, nresp, NoMembers, "ok")),
                    r.attrs, Append(r.steps, "named"))

\* PlxProxyGlobalObject._ensure_cache_is_valid: the attribute cache becomes
\* the map get_object_attributes returns.
PlxProxyGlobalObject_ensure_cache_is_valid(r, mresp) ==
    IF mresp.raises
    THEN Resolution([r.w EXCEPT !.reqs = @ + 1, !.err = "transport"], r.attrs,
                    Append(r.steps, "members"))
    ELSE Resolution([r.w EXCEPT !.reqs = @ + 1, !.err = ""], mresp.commands,
                    Append(r.steps, "members"))

\* PlxProxyGlobalObject.__getattr__, line 181: _getattr once more
getattr_again(r2, allow, attr_name, nresp) ==
    IF Failed(r2.w) THEN r2 ELSE PlxProxyGlobalObject_getattr(r2, allow, attr_name, nresp)

\* PlxProxyGlobalObject.__getattr__, lines 179-181: after an AttributeError
\* the cache is refilled and the attribute is looked up once more.
getattr_retry(r1, allow, attr_name, mresp, nresp) ==
    IF r1.w.err # "AttributeError" THEN r1
    ELSE getattr_again(PlxProxyGlobalObject_ensure_cache_is_valid(r1, mresp), allow,
                       attr_name, nresp)

\* PlxProxyGlobalObject.__getattr__
PlxProxyGlobalObject_getattr_outer(w, attrs, allow, attr_name, nresp1, mresp, nresp2) ==
    getattr_retry(PlxProxyGlobalObject_getattr(Resolution(w, attrs, <<>>), allow, attr_name,
                                               nresp1),
                  allow, attr_name, mresp, nresp2)

\* g.attr_name
GlobalGetAttr(attr_name) ==
    /\ pc = "idle"
    /\ \E nresp1 \in NamedSelectionResponses, mresp \in GlobalMembersResponses,
          nresp2 \in NamedSelectionResponses :
         LET r == PlxProxyGlobalObject_getattr_outer(W, global_attr_cache, allow_caching,
                                                     attr_name, nresp1, mresp, nresp2) IN
           /\ Complete("global_getattr", "", <<attr_name>>, r.w, FALSE)
           /\ global_attr_cache' = r.attrs
           /\ resolved' = r.steps
           /\ error' = r.w.err
    /\ UNCHANGED <<allow_caching, sel_vars, res_vars, enum_vars, ext3, fac_vars, staged_vars,
                   attr_vars, remote_count, iter, indexed, queries>>

NextGlobal ==
    \/ \E attr_name \in GlobalNames : GlobalGetAttr(attr_name)
    \/ \E name \in GlobalNames : GetNamedObject(name)
    \/ CallCommands
    \/ CommandsResponse
    \/ \E value \in BOOLEAN : SetAllowCaching(value)

SpecGlobal == Init /\ [][NextGlobal]_vars

\* ------------------------------------------------------ responses that fail
\* The extra information of an unsuccessful response.
ExtraInfos == {"not found", "busy"}

\* The responses to a namedobjects request, a list request and a commands
\* request with the extra information the server gives.
NamedAnswers ==
    { r \in NamedResponses : r.raises \/ r.success }
    \cup { [raises |-> FALSE, success |-> FALSE, ro |-> RetPrim(0), extrainfo |-> e] :
             e \in ExtraInfos }
ListAnswersTo(method) ==
    { r \in ListResponses(method) :
        r.raises \/ (r.success /\ (method = "index" => r.outputdata # <<>>)) }
    \cup { [raises |-> FALSE, success |-> FALSE, methodname |-> method, count |-> 0,
            outputdata |-> <<>>, extrainfo |-> e] : e \in ExtraInfos }
CommandAnswers ==
    { r \in CommandResponses : r.raises \/ r.success }
    \cup { [raises |-> FALSE, success |-> FALSE, returnedobjects |-> <<>>,
            returnedvalues |-> <<>>, extrainfo |-> e] : e \in ExtraInfos }
\* The responses to a propertyvalues request: those of PropertyResponses and
\* a property whose owner is not in the identity map.
PropertyAnswers ==
    PropertyResponses \cup { [kind |-> "dict", attr |-> Orphan] }

\* An operation of the Server returns or raises; resp is what the connection
\* gave it, when it has sent a request.
Answered(op, ns, key, w, resp) ==
    /\ Complete(op, ns, key, w, FALSE)
    /\ error' = w.err
    /\ message' = w.msg
    /\ answer' = IF w.reqs = 0 THEN NoAnswer ELSE resp
    /\ UNCHANGED <<allow_caching, sel_vars, res_vars, remote_count, iter, indexed, queries,
                   enum_vars, ext2, ipo_vars, selop_vars, host_vars>>

\* A call of Server.get_named_object
ReadNamedObject(name) ==
    /\ pc = "idle"
    /\ \E resp \in Received(cache_hit(allow_caching, <<name>>, globals_cache), NamedAnswers) :
       \E mresp \in MembersAfter(<<resp.ro>>) :
         Answered("get_named_object", "g", <<name>>,
                  get_named_object(W, allow_caching, <<name>>, resp, mresp, "ok"),
                  Answer(resp))

\* A call of Server.get_object_property
ReadObjectProperty(o, prop, phase) ==
    /\ pc = "idle"
    /\ \E resp \in Received(cache_hit(allow_caching, <<heap[o].guid, prop, phase>>,
                                      values_cache),
                            PropertyAnswers) :
       \E mresp \in MembersAfter(<<resp.attr>>) :
         Answered("get_object_property", "v", <<heap[o].guid, prop, phase>>,
                  get_object_property(W, allow_caching, <<heap[o].guid, prop, phase>>,
                                      resp, mresp, "ok"),
                  [kind |-> IF resp.kind = "raise" THEN "raises" ELSE "success",
                   extrainfo |-> ""])

\* A call of Server.call_listable_method
ReadListable(o, q) ==
    /\ pc = "idle"
    /\ \E resp \in Received(cache_hit(allow_caching,
                                      <<heap[o].guid, q[1], q[2], q[3], NoName>>,
                                      listables_cache),
                            ListAnswersTo(q[1])) :
       \E mresp \in MembersAfter(resp.outputdata) :
         Answered("call_listable_method", "l", <<heap[o].guid, q[1], q[2], q[3], NoName>>,
                  call_listable_method(W, allow_caching,
                                       <<heap[o].guid, q[1], q[2], q[3], NoName>>,
                                       resp, mresp, "ok"),
                  Answer(resp))

\* Server.call_plx_object_method and Server.set_object_property, from the
\* response of request_commands
CommandsAnswer ==
    /\ pc = "wait"
    /\ pending \in MutatingOps
    /\ \E resp \in CommandAnswers :
         Answered(pending, "", <<>>, commands_result(W, pending, resp, NoMembers, "ok"),
                  Answer(resp))

\* The queries of a collection: its length and its first element.
FailQueries == { <<"count", NoIndex, NoIndex>>, <<"index", 0, NoIndex>> }

NextFailure ==
    \/ \E name \in Names : ReadNamedObject(name)
    \/ \E o \in ReadTargets, prop \in ReadProps, phase \in {NoObj} :
         ReadObjectProperty(o, prop, phase)
    \/ \E o \in ReadTargets, q \in FailQueries : ReadListable(o, q)
    \/ CallPlxObjectMethod
    \/ SetObjectProperty
    \/ CommandsAnswer
    \/ \E value \in BOOLEAN : SetAllowCaching(value)

SpecFailure == Init /\ [][NextFailure]_vars
\* ------------------------------------------- the values of several queries
\* Number of queries in a propertyvalues response.
MaxQueries == 3

\* What the response holds for one query: the query failed (success false,
\* no properties), its properties lack the attribute, the attribute is the
\* null guid, a primitive, or a dict that describes an entity.
QueryAnswers ==
    { [kind |-> k, attr |-> RetPrim(0)] : k \in {"failed", "absent", "null"} }
    \cup { [kind |-> "prim", attr |-> RetPrim(v)] : v \in {1} }
    \cup { [kind |-> "dict", attr |-> ro] : ro \in {Soil} }
\* The responses of at most n queries.
QueryLists(n) == UNION { [1..k -> QueryAnswers] : k \in 0..n }

\* A call of ResultHandler.handle_propertyvalues_response
HandlePropertyvaluesResponse(resps) ==
    /\ pc = "idle"
    /\ Handled("handle_propertyvalues_response", [i \in DOMAIN resps |-> resps[i].kind],
               handle_propertyvalues_response_list(W, resps, NoMembers, "ok"),
               [i \in DOMAIN resps |-> resps[i].attr])

NextValues ==
    \E resps \in QueryLists(MaxQueries) : HandlePropertyvaluesResponse(resps)

SpecValues == Init /\ [][NextValues]_vars
\* ------------------------------------------- an object-valued property proxy
\* The attribute cache of the entities: methods (move) and properties.
EntityMembers(e) ==
    IF e = "A" THEN [n \in {"x", "move"} |-> IF n = "move" THEN Method ELSE Property]
    ELSE IF e = "B" THEN [n \in {"y", "move"} |-> IF n = "move" THEN Method ELSE IPObject]
    ELSE [n \in {"x", "z"} |-> Property]

\* The names of dir(super(PlxProxyObject, self)): Python attributes, none of
\* them a member name of the entities here.
dir_super == {"__class__", "__init__", "__getattr__", "__dir__"}

\* The instance dictionary (__dict__) of an attribute proxy: __call__ is
\* defined by the class PlxProxyObjectMethod, lines 382-387, not set on the
\* instance by __init__, lines 374-380.
instance_dict(cls) ==
    IF cls = Method THEN {"_server", "_proxy_object", "_method_name"}
    ELSE {"_server", "_guid", "_plx_type", "_attr_cache", "_owner", "_property_name",
          "_stagedIP_value"}
         \cup IF cls = IPObject THEN {"_ip_attr_cache"} ELSE {}

\* A variant that keeps the attributes that are not of the method class.
value_property_not_method(attr_name, attr) ==
    attr_name \notin dir_super /\ attr # Method

\* PlxProxyIPObject._get_value_properties_dict, lines 574-583: is the
\* attribute of the value put into value_props_dict?
value_property(attr_name, attr) ==
    /\ attr_name \notin dir_super
    /\ attr = IPObject \/ "__call__" \notin instance_dict(attr)

\* PlxProxyIPObject._get_value_properties_dict
get_value_properties_dict(value) ==
    IF value = NoEntity THEN <<>>
    ELSE [n \in {m \in DOMAIN EntityMembers(value) :
                   value_property(m, EntityMembers(value)[m])} |-> EntityMembers(value)[n]]

\* dict(a, **b)
dict_merge(a, b) == [n \in DOMAIN a \cup DOMAIN b |-> IF n \in DOMAIN b THEN b[n] ELSE a[n]]

\* PlxProxyObject._ensure_cache_is_valid, lines 267-271, for the property:
\* an empty _attr_cache is fetched.
super_ensure_cache_is_valid(s, members) ==
    IF s.attr_cache = <<>> THEN [s EXCEPT !.attr_cache = members] ELSE s

\* PlxProxyIPObject._ensure_cache_is_valid, lines 597-598: an empty
\* _ip_attr_cache becomes _attr_cache.
keep_ip_attr_cache(s) ==
    IF s.ip_attr_cache = <<>> THEN [s EXCEPT !.ip_attr_cache = s.attr_cache] ELSE s

\* PlxProxyIPObject._ensure_cache_is_valid, line 602
merge_value_properties(s, value) ==
    [s EXCEPT !.attr_cache = dict_merge(s.ip_attr_cache, get_value_properties_dict(value))]

\* PlxProxyIPObject._ensure_cache_is_valid
PlxProxyIPObject_ensure_cache_is_valid(s, members, value) ==
    merge_value_properties(keep_ip_attr_cache(super_ensure_cache_is_valid(s, members)),
                           value)

\* An access of an attribute of the property proxy (attr_cache, __getattr__,
\* __dir__): the cache is made valid first.
AccessAttributes ==
    /\ ip_attrs' = PlxProxyIPObject_ensure_cache_is_valid(ip_attrs, own_members, wrapped)
    /\ accessed' = [reqs |-> IF ip_attrs.attr_cache = <<>> THEN 1 ELSE 0,
                    value |-> wrapped,
                    before |-> IF accessed.value = wrapped THEN accessed.before
                               ELSE accessed.value]
    /\ UNCHANGED <<wrapped, own_members>>
    /\ UNCHANGED <<server_vars, sel_vars, res_vars, list_vars, enum_vars, ext2, message, answer, selop_vars, host_vars>>

\* The project changes the value of the property: another entity or none.
ChangeValue(e) ==
    /\ e # wrapped
    /\ wrapped' = e
    /\ UNCHANGED <<ip_attrs, own_members, accessed>>
    /\ UNCHANGED <<server_vars, sel_vars, res_vars, list_vars, enum_vars, ext2, message, answer, selop_vars, host_vars>>

NextIPObject ==
    \/ AccessAttributes
    \/ \E e \in Entities \cup {NoEntity} : ChangeValue(e)

\* A property proxy of a server that gives one of the member sets for it.
InitIP ==
    /\ InitServer
    /\ InitSelection /\ InitReturned /\ InitListable /\ InitEnumeration /\ InitExt2
    /\ message = <<>>
    /\ answer = NoAnswer
    /\ selection_call = NoCall
    /\ selection_request = NoSelectionRequest
    /\ InitHost(FALSE)
    /\ \E members \in OwnMemberSets : InitIPObject(members)

SpecIPObject == InitIP /\ [][NextIPObject]_vars
\* ------------------------------------------------- the variant of a new proxy
\* The type tags the factory is given.
DispatchTags ==
    {"Boolean", "enumKind", "Number", "Integer", "Object", "Text", "stagedNumber", "Point",
     "PlxValues", "SoilMat"}

\* A call of PlxProxyFactory.create_plx_proxy_object with an owner (a proxy
\* that exists) or without one
CreateVariant(guid, plx_type, is_listable, owner) ==
    /\ pc = "idle"
    /\ \E eresp \in IF IsEnumTag(plx_type) /\ owner # NoObj THEN EnumResponses ELSE {"ok"} :
         Done("create_variant", "", <<guid, plx_type, is_listable, owner>>,
              created(create_plx_proxy_object(W, guid, plx_type, is_listable, "Name", owner,
                                              eresp)),
              FALSE)
    /\ UNCHANGED allow_caching

\* The calls for the tokens that are not in the identity map.
NextDispatch ==
    \E guid \in Guids \ DOMAIN proxy_object_cache, plx_type \in DispatchTags, is_listable \in BOOLEAN,
       owner \in DOMAIN heap \cup {NoObj} :
         CreateVariant(guid, plx_type, is_listable, owner)

SpecDispatch == Init /\ [][NextDispatch]_vars
\* ------------------------------------- the methods of the Selection, one by one
\* Server.call_selection_command, line 799: the tokens of the handles.
guids(objects) == [i \in DOMAIN objects |-> heap[objects[i]].guid]

\* A variant of Selection.pop that removes the first object.
pop_objects_first(objects) == <<objects[1]>>

\* Selection.pop, line 49: the argument of remove.
pop_objects(objects) == <<objects[Len(objects)]>>

\* Connection.request_selection: the payload of the request.
request_selection(command, objects) == [name |-> command, objects |-> guids(objects)]

\* The method op of the Selection, called with index and obj.
Called(op, index, obj) ==
    [op |-> op, index |-> index, obj |-> obj, before |-> selection_objects]

\* A method of the Selection has sent command with objects, and the
\* connection gave resp; _objects is assigned when the command has returned.
SelectionMethod(call, command, objects, w, resp) ==
    /\ Complete("selection", "", <<command>>, w, FALSE)
    /\ server_selection' = IF last'.outcome = "ok"
                           THEN Tokens(resp.selection)
                           ELSE server_selection
    /\ selection_call' = call
    /\ selection_request' = request_selection(command, objects)
    /\ UNCHANGED <<allow_caching, res_vars, list_vars, enum_vars, ext2, message, answer,
                   ipo_vars, host_vars>>

\* A method of the Selection returns or raises without a request.
SelectionNoCommand(call, w) ==
    /\ Complete(call.op, "", <<>>, w, FALSE)
    /\ selection_call' = call
    /\ UNCHANGED <<allow_caching, sel_vars, res_vars, list_vars, enum_vars, ext2, message,
                   answer, ipo_vars, selection_request, host_vars>>

\* Selection.refresh
Refresh ==
    /\ pc = "idle"
    /\ \E resp \in SelectionObjectResponses :
         SelectionMethod(Called("refresh", 0, NoObj), SELECTION_GET, <<>>,
                          Selection_refresh(W, resp), resp)

\* Selection.clear: set([])
Clear ==
    /\ pc = "idle"
    /\ \E resp \in SelectionObjectResponses :
         SelectionMethod(Called("clear", 0, NoObj), SELECTION_SET, <<>>,
                          Selection_set(W, resp), resp)

\* Selection.pop
Pop ==
    /\ pc = "idle"
    /\ IF Len(selection_objects) > 0
       THEN \E resp \in SelectionObjectResponses :
              SelectionMethod(Called("pop", 0, NoObj), SELECTION_REMOVE,
                               pop_objects(selection_objects),
                               Selection_remove(W, resp), resp)
       ELSE SelectionNoCommand(Called("pop", 0, NoObj), W)

\* Selection.__delitem__: _objects[index] raises IndexError for an index
\* that is out of range.
DelItem(index) ==
    /\ pc = "idle"
    /\ IF index \in DOMAIN selection_objects
       THEN \E resp \in SelectionObjectResponses :
              SelectionMethod(Called("delitem", index, NoObj), SELECTION_REMOVE,
                               <<selection_objects[index]>>,
                               Selection_remove(W, resp), resp)
       ELSE SelectionNoCommand(Called("delitem", index, NoObj), Raise(W, "IndexError"))

\* Selection.__setitem__, line 81: the object is written into _objects, or
\* IndexError is raised for an index that is out of range.
SetItemWrite(index, obj) ==
    /\ pc = "idle"
    /\ IF index \in DOMAIN selection_objects
       THEN /\ selection_objects' = [selection_objects EXCEPT ![index] = obj]
            /\ selection_call' = Called("setitem", index, obj)
            /\ pc' = "wait"
            /\ pending' = "setitem"
            /\ last' = NoLast
            /\ UNCHANGED <<allow_caching, globals_cache, values_cache, listables_cache,
                           proxies_to_reset, proxy_object_cache, proxy_enum_classes, heap,
                           issued, seen, stale, sel_vars, res_vars, list_vars, enum_vars,
                           ext2, message, answer, ipo_vars, selection_request, host_vars>>
       ELSE SelectionNoCommand(Called("setitem", index, obj), Raise(W, "IndexError"))

\* Selection.__setitem__, line 82: set sends the list that _objects is now.
SetItemSet ==
    /\ pc = "wait"
    /\ pending = "setitem"
    /\ \E resp \in SelectionObjectResponses :
         SelectionMethod(selection_call, SELECTION_SET, selection_objects,
                          Selection_set(W, resp), resp)

NextSelectionMethods ==
    \/ Refresh
    \/ Clear
    \/ Pop
    \/ \E index \in 1..MaxSel : DelItem(index)
    \/ \E index \in 1..MaxSel, obj \in SetItemObjects : SetItemWrite(index, obj)
    \/ SetItemSet

SpecSelectionMethods == Init /\ [][NextSelectionMethods]_vars

\* --------------------------------- the properties of an owner with a staged type
\* server.py, line 359: owner_type.startswith(STAGED_PREFIX), "staged."
HasStagedPrefix(t) == t \in {"staged.Number"}

\* plxproxyfactory.is_primitive
is_primitive(plx_type) ==
    plx_type \in {"Boolean", "Number", "Integer", "Text"} \/ IsEnumTag(plx_type)

\* The dict of a property in a propertyvalues response: a returned object
\* with a "value" member.
StagedAttribute(g, t, value) ==
    [isdict |-> TRUE, guid |-> g, type |-> t, islistable |-> FALSE, ownerguid |-> NoOwner,
     prim |-> 0, json |-> NoPayload, value |-> value]
\* The null guid as the value of an object property.
NullValue == RetPrim(0)

\* The owner with a staged type, its token being the first, and the phase
\* values of its property, whose token is the second.
StagedOwner == RetObj("g1", "staged.Number", FALSE, NoOwner)
PhaseValue == StagedAttribute("g2", "Number", 1)

\* PlxProxyObjectProperty.set_stagedIP_value
set_stagedIP_value(w1, value) ==
    IF Failed(w1) THEN w1
    ELSE LET obj == w1.heap[w1.ret] IN
         [w1 EXCEPT !.heap[w1.ret] =
             [f \in DOMAIN obj \cup {"stagedIP_value"} |->
                 IF f = "stagedIP_value" THEN value ELSE obj[f]]]

\* A variant that asks the factory for the proxy of the token, as for any
\* returned object.
ResultHandler_create_stagedIP_proxy_mapped(w, returned_object, attr_name, eresp) ==
    created(set_stagedIP_value(
                create_plx_proxy_object(w, returned_object.guid, returned_object.type, FALSE,
                                        attr_name, NoObj, eresp),
                returned_object.value))

\* ResultHandler._create_stagedIP_proxy
ResultHandler_create_stagedIP_proxy(w, returned_object, attr_name, eresp) ==
    created(set_stagedIP_value(
                create_plx_proxy_property(w, returned_object.guid, returned_object.type, FALSE,
                                          attr_name, NoObj, eresp),
                returned_object.value))

\* ResultHandler._get_single_propertyvalues, lines 359-368: a dict
staged_attribute(w, attribute, attr_name, owner_type, mresp, eresp) ==
    IF HasStagedPrefix(owner_type) /\ is_primitive(attribute.type)
    THEN ResultHandler_create_stagedIP_proxy(w, attribute, attr_name, eresp)
    ELSE IF HasStagedPrefix(owner_type) /\ attribute.type = "Object"
    THEN IF attribute.value # NullValue
         THEN created(create_proxy_object(w, attribute.value, NoName, NoObj, mresp, eresp))
         ELSE [w EXCEPT !.res = ResNone]
    ELSE create_proxies_from_returned_objects(w, <<attribute>>, FALSE, mresp, eresp)

\* ResultHandler._get_single_propertyvalues
get_single_propertyvalues_of(w, resp, attr_name, owner_type, mresp, eresp) ==
    CASE resp.kind = "dict" ->
           staged_attribute(w, resp.attr, attr_name, owner_type, mresp, eresp)
      [] resp.kind = "prim" -> [w EXCEPT !.res = ResBare(Item(FALSE, resp.attr.prim))]
      [] OTHER -> [w EXCEPT !.res = ResNone]

\* Server.__get_objects_property_no_cache for one proxy object, whose type
\* is owner_type
get_objects_property_no_cache_of(w, resp, attr_name, owner_type, mresp, eresp) ==
    IF resp.kind = "raise"
    THEN [w EXCEPT !.reqs = @ + 1, !.err = "transport"]
    ELSE values_list(get_single_propertyvalues_of([w EXCEPT !.reqs = @ + 1], resp, attr_name,
                                                  owner_type, mresp, eresp))

\* Server.get_object_property for a proxy object whose type is owner_type
get_object_property_of(w, allow, key, resp, owner_type, mresp, eresp) ==
    first_value(IF cache_hit(allow, key, w.vc)
                THEN [w EXCEPT !.res = w.vc[key]]
                ELSE store_value(get_objects_property_no_cache_of(w, resp, key[2], owner_type,
                                                                  mresp, eresp),
                                 allow, key))

\* The proxies of this part: the owner and two more.
StagedObjs == MaxObjs + 1

\* The responses to the propertyvalues request for the property of the
\* staged owner.
PhaseAnswers ==
    { [kind |-> k, attr |-> RetPrim(0)] : k \in {"raise", "absent", "null"} }
    \cup { [kind |-> "prim", attr |-> RetPrim(1)] }
    \cup { [kind |-> "dict", attr |-> a] :
             a \in { PhaseValue,
                     StagedAttribute("g3", "Object", NullValue),
                     StagedAttribute("g3", "Object", StagedOwner) } }

\* The proxy of the owner with the staged type.
IsPhaseOwner(o) == HasStagedPrefix(heap[o].plx_type)
\* The phase objects of a read: none, or a proxy (here the owner itself).
Phases == {NoObj} \cup { o \in DOMAIN heap : IsPhaseOwner(o) }
\* The key of the read in the values cache (server.py, line 718).
PhaseKey(o, phase) == <<heap[o].guid, "Stage", phase>>

\* The owner with the staged type is created.
CreatePhaseOwner ==
    /\ heap = <<>>
    /\ CreatePlxProxyObject(StagedOwner, NoName, NoObj)

\* A call of Server.get_object_property(o, "Stage", phase)
ReadPhase(o, phase) ==
    /\ pc = "idle"
    /\ \E resp \in Received(cache_hit(allow_caching, PhaseKey(o, phase), values_cache),
                            PhaseAnswers) :
         Answered("get_object_property", "v", PhaseKey(o, phase),
                  get_object_property_of([W EXCEPT !.cap = StagedObjs], allow_caching,
                                         PhaseKey(o, phase), resp, heap[o].plx_type,
                                         NoMembers, "ok"),
                  resp)

NextPhases ==
    \/ CreatePhaseOwner
    \/ \E o \in DOMAIN heap, phase \in Phases : IsPhaseOwner(o) /\ ReadPhase(o, phase)
    \/ ResetCaches
    \/ \E value \in BOOLEAN : SetAllowCaching(value)

SpecPhases == Init /\ [][NextPhases]_vars

\* ----------------------------------------------- two threads on one Server
\* The values the property takes at the server.
MaxValue == 1
RemoteValues == 0..MaxValue
\* The property both threads read: its key in the values cache.
SharedKey == <<"g1", "Name", NoObj>>
\* The response to a propertyvalues request: the value the server has when
\* it handles the request.
ValueResponse(v) == [kind |-> "prim", attr |-> RetPrim(v)]

\* The lock of the host: a thread enters an operation of the Server when no
\* thread holds the lock, and holds it until the operation returns; without
\* the lock every thread enters.
MayEnter(t) == threads[t].pc = "idle" /\ (use_lock => lock_owner = NoThread)
Acquired(t) == IF use_lock THEN {t} ELSE lock_owner
Released == IF use_lock THEN NoThread ELSE lock_owner

\* A read returns to its thread what w holds.
Returned(w) ==
    [IdleThread EXCEPT !.op = "read", !.result = w.res, !.calls = w.reqs,
                       !.fresh = (w.res = ResBare(Item(FALSE, remote_value)))]

\* What a step of a thread leaves alone, besides the Server's own state.
HostFrame ==
    UNCHANGED <<allow_caching, selection_objects, pc, pending, last, seen, stale, sel_vars,
                res_vars, list_vars, enum_vars, ext2, message, answer, ipo_vars, selop_vars,
                use_lock>>

\* Server.get_object_property, lines 635-636 of __get_with_cache: the key is
\* cached, and the cached value is returned without a request.
ThreadReadHit(t) ==
    /\ MayEnter(t)
    /\ cache_hit(allow_caching, SharedKey, values_cache)
    /\ LET w == get_object_property(W, allow_caching, SharedKey, ValueResponse(remote_value),
                                    NoMembers, "ok") IN
         /\ Commit(w)
         /\ threads' = [threads EXCEPT ![t] = Returned(w)]
    /\ UNCHANGED <<remote_value, lock_owner>>
    /\ HostFrame

\* The same, lines 638-639: the key is not cached (or caching is off), and
\* the request goes to the connection.
ThreadReadMiss(t) ==
    /\ MayEnter(t)
    /\ ~cache_hit(allow_caching, SharedKey, values_cache)
    /\ threads' = [threads EXCEPT ![t] = [IdleThread EXCEPT !.pc = "read_sent", !.op = "read"]]
    /\ lock_owner' = Acquired(t)
    /\ UNCHANGED <<server_vars, remote_value>>
    /\ HostFrame

\* The server handles the request of a read: it answers with the value it
\* has now.
ServerAnswersRead(t) ==
    /\ threads[t].pc = "read_sent"
    /\ threads' = [threads EXCEPT ![t].pc = "read_answered", ![t].response = remote_value]
    /\ UNCHANGED <<server_vars, remote_value, lock_owner>>
    /\ HostFrame

\* __get_with_cache, lines 639-643: the response is handled, the result is
\* stored and returned.
ThreadReadStore(t) ==
    /\ threads[t].pc = "read_answered"
    /\ LET w == first_value(store_value(
                    get_objects_property_no_cache(W, ValueResponse(threads[t].response),
                                                  NoMembers, "ok"),
                    allow_caching, SharedKey)) IN
         /\ Commit(w)
         /\ threads' = [threads EXCEPT ![t] = Returned(w)]
    /\ lock_owner' = Released
    /\ UNCHANGED remote_value
    /\ HostFrame

\* Server.call_commands, line 791: the caches are reset, then the request
\* goes to the connection.
ThreadCallCommands(t, v) ==
    /\ MayEnter(t)
    /\ Commit(call_commands_begin(W))
    /\ threads' = [threads EXCEPT ![t] = [IdleThread EXCEPT !.pc = "command_sent",
                                                            !.op = "call_commands",
                                                            !.argument = v]]
    /\ lock_owner' = Acquired(t)
    /\ UNCHANGED remote_value
    /\ HostFrame

\* The server executes the command, which sets the value, and call_commands
\* returns (line 793).
ThreadCommandsReturn(t) ==
    /\ threads[t].pc = "command_sent"
    /\ remote_value' = threads[t].argument
    /\ threads' = [threads EXCEPT ![t] = [IdleThread EXCEPT !.op = "call_commands",
                                                            !.calls = 1]]
    /\ lock_owner' = Released
    /\ UNCHANGED server_vars
    /\ HostFrame

NextThreads ==
    \/ \E t \in Threads : ThreadReadHit(t)
    \/ \E t \in Threads : ThreadReadMiss(t)
    \/ \E t \in Threads : ServerAnswersRead(t)
    \/ \E t \in Threads : ThreadReadStore(t)
    \/ \E t \in Threads, v \in RemoteValues : ThreadCallCommands(t, v)
    \/ \E t \in Threads : ThreadCommandsReturn(t)

\* The Server with the threads of a host that takes the lock, or does not.
InitThreads ==
    /\ InitServer
    /\ InitSelection /\ InitReturned /\ InitListable /\ InitEnumeration /\ InitExt2
    /\ message = <<>>
    /\ answer = NoAnswer
    /\ InitIPObject(<<>>)
    /\ selection_call = NoCall
    /\ selection_request = NoSelectionRequest
    /\ \E lock \in BOOLEAN : InitHost(lock)

SpecThreads == InitThreads /\ [][NextThreads]_vars

\* ------------------------------ an iteration with commands between its windows
\* The response to a command that changes the collection: it returns no
\* object.
CollectionChanged ==
    [raises |-> FALSE, success |-> TRUE, returnedobjects |-> <<>>, returnedvalues |-> <<>>,
     extrainfo |-> ""]

\* Server.call_commands, from the response of request_commands, for a
\* command that leaves the collection with n elements
CollectionCommandResponse(n) ==
    /\ pc = "wait"
    /\ pending = "call_commands"
    /\ Complete(pending, "", <<>>, commands_result(W, pending, CollectionChanged, NoMembers,
                                                   "ok"), FALSE)
    /\ remote_count' = n
    /\ UNCHANGED <<allow_caching, iter, indexed, queries, error, sel_vars, res_vars, enum_vars,
                   ext2, ext3>>

NextIterate ==
    \/ CreateListable
    \/ IterStart
    \/ IterNext
    \/ CallCommands
    \/ \E n \in Lengths : CollectionCommandResponse(n)

SpecIterate == InitList /\ [][NextIterate]_vars


\* ---------------------------------------------------------------- properties
\* Server.reset_caches, lines 592-594: the three query caches are empty.
QueryCachesEmpty ==
    /\ DOMAIN globals_cache = {}
    /\ DOMAIN values_cache = {}
    /\ DOMAIN listables_cache = {}

\* The operations that go through Server.__get_with_cache.
IsRead(l) == l.ns # ""

C2_ResetBeforeRequest ==
    /\ (pc = "wait" /\ pending \in MutatingOps)
         => /\ QueryCachesEmpty
            /\ \A i \in Range(proxies_to_reset) : heap[i].attr_none
    /\ (pc = "idle" /\ last.op \in MutatingOps) => QueryCachesEmpty

\* A command has raised after its request was sent; a named object was cached
\* before the call and a material proxy is registered.
C2_Witness ==
    /\ pc = "idle"
    /\ last.op = "call_commands"
    /\ last.outcome = "raised"
    /\ last.reqs = 1
    /\ stale["g"] # {}
    /\ proxies_to_reset # <<>>

\* C3: with caching allowed, a read of a key that was read successfully
\* since the last reset_caches returns the result of that read and sends no
\* request, in each of the three caches.
C3_CachedReadSendsNoRequest ==
    [][ (allow_caching /\ IsRead(last') /\ last'.key \in DOMAIN seen[last'.ns])
        => /\ last'.outcome = "ok"
           /\ last'.reqs = 0
           /\ last'.res = seen[last'.ns][last'.key] ]_vars

\* A property value has been served from the cache while the two other
\* caches hold a result too.
C3_Witness ==
    /\ allow_caching
    /\ pc = "idle"
    /\ last.ns = "v"
    /\ last.outcome = "ok"
    /\ last.reqs = 0
    /\ last.key \in DOMAIN values_cache
    /\ DOMAIN globals_cache # {}
    /\ DOMAIN listables_cache # {}

C5_ProjectCommandClearsAll ==
    (pc = "idle" /\ last.op = "project" /\ last.outcome = "ok" /\ last.res.kind = "info")
        => QueryCachesEmpty /\ DOMAIN proxy_object_cache = {}

\* A project command has succeeded after results were cached in two caches
\* and proxies were constructed.
C5_Witness ==
    /\ pc = "idle"
    /\ last.op = "project"
    /\ last.outcome = "ok"
    /\ last.res.kind = "info"
    /\ stale["g"] # {}
    /\ stale["v"] # {}
    /\ Len(heap) = MaxObjs

\* C6 as stated: a project command resets the caches before
\* request_environment is sent, so the three query caches are empty while the
\* request is with the connection and after the command has raised or has
\* returned an empty result.
C6_AsStated ==
    /\ (pc = "wait" /\ pending = "project") => QueryCachesEmpty
    /\ (pc = "idle" /\ last.op = "project"
        /\ (last.outcome = "raised" \/ last.res.kind = "empty"))
         => QueryCachesEmpty

\* C7: only a project command and clear_proxy_object_cache empty the identity
\* map: every other step (a read, a method call, a property set, a selection
\* command, reset_caches, the allow_caching setter) keeps each mapping of a
\* token to its handle and can only add the mappings of new tokens.
C7_MapOnlyGrows ==
    [][ last'.op \notin {"project", "clear_proxy_object_cache"}
        => \A g \in DOMAIN proxy_object_cache :
             /\ g \in DOMAIN proxy_object_cache'
             /\ proxy_object_cache'[g] = proxy_object_cache[g] ]_vars

\* A method call has returned the material while the property's token, which
\* no command response names, is still mapped.
C7_Witness ==
    /\ pc = "idle"
    /\ last.op = "call_plx_object_method"
    /\ last.outcome = "ok"
    /\ last.res.kind = "bare"
    /\ "g2" \in DOMAIN proxy_object_cache
    /\ heap[proxy_object_cache["g2"]].owner = proxy_object_cache["g1"]

\* C8: a call of create_plx_proxy_object with a mapped token returns the
\* mapped handle, whatever type, listable flag, property name and owner it
\* carries: no proxy is constructed or changed, no enumeration is requested
\* or registered, and the identity map is unchanged.
C8_MappedTokenReturnsExisting ==
    [][ (last'.op = "create_plx_proxy_object" /\ last'.key[1] \in DOMAIN proxy_object_cache)
        => /\ last'.outcome = "ok"
           /\ last'.res = ResBare(Item(TRUE, proxy_object_cache[last'.key[1]]))
           /\ last'.reqs = 0
           /\ heap' = heap
           /\ proxy_object_cache' = proxy_object_cache
           /\ proxy_enum_classes' = proxy_enum_classes
           /\ proxies_to_reset' = proxies_to_reset ]_vars

\* A call that carries an enumeration type, a property name and an owner has
\* returned the material proxy its token is mapped to.
C8_Witness ==
    /\ pc = "idle"
    /\ last.op = "create_plx_proxy_object"
    /\ last.key = <<"g1", "enumKind">>
    /\ last.outcome = "ok"
    /\ heap[last.res.items[1].v].cls = "PlxProxyObjectMaterial"
    /\ heap[last.res.items[1].v].property_name = NoName

\* C9: a changed allow_caching empties the three query caches; while it is
\* false they stay empty and every read sends its request; an assignment of
\* the value it has changes no cache.
C9_AllowCaching ==
    /\ [](~allow_caching => QueryCachesEmpty)
    /\ [][ /\ (allow_caching' # allow_caching) => QueryCachesEmpty'
           /\ (~allow_caching /\ IsRead(last')) => last'.reqs >= 1
           /\ (last'.op = "allow_caching" /\ allow_caching' = allow_caching)
                => UNCHANGED <<globals_cache, values_cache, listables_cache, heap>> ]_vars

\* With caching disabled, a read of a named object has sent its request,
\* has succeeded and has stored nothing.
C9_Witness ==
    /\ ~allow_caching
    /\ pc = "idle"
    /\ last.ns = "g"
    /\ last.outcome = "ok"
    /\ last.reqs >= 1
    /\ DOMAIN globals_cache = {}
    /\ Len(heap) = MaxObjs

\* C10: a material proxy is registered with the server from its
\* construction on; a method call, a property set and a command (when the
\* request is sent and when the call has returned) and a successful project
\* command leave every material proxy without its attribute cache, and an
\* attribute access of a proxy without it fetches the members.
C10_MaterialDropsAttributes ==
    /\ [](\A i \in DOMAIN heap :
            heap[i].cls = "PlxProxyObjectMaterial"
              => /\ i \in Range(proxies_to_reset)
                 /\ (pc = "wait" /\ pending \in MutatingOps) => heap[i].attr_none)
    /\ [][ \A i \in DOMAIN heap :
             heap[i].cls = "PlxProxyObjectMaterial"
               => /\ (\/ last'.op \in MutatingOps
                      \/ /\ last'.op = "project"
                         /\ last'.outcome = "ok"
                         /\ last'.res.kind = "info")
                       => heap'[i].attr_none /\ heap'[i].guid = heap[i].guid
                  /\ (heap[i].attr_none /\ last'.op = "getattr" /\ last'.key = <<i>>)
                       => last'.reqs >= 1 ]_vars

\* After a mutating call, an attribute access of a material proxy has
\* fetched its members.
C10_Witness ==
    /\ pc = "idle"
    /\ last.op = "getattr"
    /\ last.outcome = "ok"
    /\ last.reqs >= 1
    /\ heap[last.key[1]].cls = "PlxProxyObjectMaterial"
    /\ DOMAIN heap[last.key[1]].attrs # {}
    /\ stale["g"] # {}

\* The tokens of the proxies in Selection._objects, in their order.
LocalSelection == [i \in DOMAIN selection_objects |-> heap[selection_objects[i]].guid]

\* C11 as stated: when a selection command set, append or remove has
\* returned, the three query caches are empty and every registered proxy has
\* dropped its attribute cache, so that no later read is served from them.
C11_AsStated ==
    (/\ pc = "idle"
     /\ last.op = "selection"
     /\ last.key \in {<<SELECTION_SET>>, <<SELECTION_APPEND>>, <<SELECTION_REMOVE>>}
     /\ last.outcome = "ok")
        => /\ QueryCachesEmpty
           /\ \A i \in Range(proxies_to_reset) : heap[i].attr_none

\* C17 as stated: between the operations of the Selection, the local
\* selection holds the proxies of the tokens of the last selection response,
\* in its order, also after an operation whose request has raised.
C17_AsStated ==
    pc = "idle" => LocalSelection = server_selection

\* C18: a read of the global object's selection that finds no named object
\* "selection" sends the lookup and a selection request, with caching allowed
\* or not and whatever was read before; when it returns, the Selection holds
\* the proxies of the tokens of the response, in its order.
C18_SelectionReadRefreshes ==
    [][ (last'.op = "selection" /\ last'.key = <<"read">>)
        => /\ last'.reqs = 2
           /\ last'.outcome = "ok"
                => /\ LocalSelection' = server_selection'
                   /\ last'.res = ResList([i \in DOMAIN selection_objects' |->
                                             Item(TRUE, selection_objects'[i])]) ]_vars

\* With caching allowed and a named object cached, a read of the selection
\* has sent its two requests and has returned two objects.
C18_Witness ==
    /\ pc = "idle"
    /\ allow_caching
    /\ DOMAIN globals_cache # {}
    /\ last.op = "selection"
    /\ last.key = <<"read">>
    /\ last.outcome = "ok"
    /\ last.reqs = 2
    /\ Len(selection_objects) = 2
    /\ selection_objects[1] # selection_objects[2]

\* What is returned for a returned object: the proxy its token is mapped to,
\* or the primitive itself.
Expected(ro) ==
    IF ro.isdict THEN Item(TRUE, proxy_object_cache[ro.guid]) ELSE Item(FALSE, ro.prim)
\* The results for the returned objects of the last response, in its order.
ExpectedItems == [i \in DOMAIN returned |-> Expected(returned[i])]

\* The calls that do not ask for a list: the collapse itself without
\* allow_one_item_list_result, and a named-object lookup, a command result
\* and a single-index query with the objects they return.
NoListAsked(l) ==
    \/ l.op = "create_proxies_from_returned_objects" /\ l.key = <<FALSE>>
    \/ l.op = "handle_namedobjects_response"
    \/ l.op = "handle_commands_response" /\ returned # <<>>
    \/ l.op = "handle_list_response" /\ l.key[1] \in IndexMethods

C15_AsStated ==
    (/\ pc = "idle"
     /\ last.outcome = "ok"
     /\ \/ last.op = "handle_list_response" /\ last.key[1] \in SliceMethods
        \/ last.op = "handle_selection_response")
        => /\ last.res.kind = "list"
           /\ Len(last.res.items) = Len(returned)

\* ceil(n / k)
CeilDiv(n, k) == (n + k - 1) \div k

\* C12: the windows an iteration of a collection of length N has asked for
\* are [0,k), [k,2k), ... with k = ITER_CACHE_COUNT, the last one cut to N:
\* each has start < stop <= N and at most k indices, they are contiguous and
\* ascending; when the iteration has ended they cover [0,N) and are
\* ceil(N/k) many (none for N = 0), and with nothing left the generator
\* stops; a fresh iteration starts at 0 again. A window that is not cached
\* is one sublist query of its range.
C12_IterationWindows ==
    /\ [](/\ iter.pc = "running" => iter.length = remote_count
          /\ \A i \in DOMAIN iter.windows :
               /\ iter.windows[i][1] = (i - 1) * ITER_CACHE_COUNT
               /\ iter.windows[i][2] = Min(i * ITER_CACHE_COUNT, iter.length)
               /\ iter.windows[i][1] < iter.windows[i][2]
               /\ iter.windows[i][2] <= iter.length
               /\ iter.windows[i][2] - iter.windows[i][1] <= ITER_CACHE_COUNT
               /\ i > 1 => iter.windows[i][1] = iter.windows[i - 1][2]
          /\ Len(iter.windows) <= CeilDiv(iter.length, ITER_CACHE_COUNT)
          /\ iter.pc = "done"
               => /\ iter.length = remote_count
                  /\ Len(iter.windows) = CeilDiv(remote_count, ITER_CACHE_COUNT)
                  /\ iter.windows # <<>>
                       => iter.windows[Len(iter.windows)][2] = remote_count)
    /\ [][ /\ (iter.pc = "running" /\ iter'.pc = "running" /\ iter' # iter)
                => /\ Len(iter'.windows) = Len(iter.windows) + 1
                   /\ queries' \in
                        { <<>>,
                          <<ListKey("g1", "sublist", iter.cache_start, iter'.cache_start)>> }
                   /\ ~ListHit("sublist", iter.cache_start, iter'.cache_start)
                        => queries' # <<>>
           /\ (iter.pc = "running" /\ iter.cache_start >= iter.length /\ iter' # iter)
                => iter'.pc = "done" /\ queries' = <<>>
           /\ (iter.pc # "running" /\ iter'.pc = "running")
                => iter'.cache_start = 0 /\ iter'.windows = <<>> ]_vars

\* A second iteration of a collection that is one longer than two windows
\* has ended, with caching disabled: each of its three windows was a query.
C12_Witness ==
    /\ ~allow_caching
    /\ iter.pc = "done"
    /\ iter.runs = 2
    /\ remote_count = 2 * ITER_CACHE_COUNT + 1
    /\ Len(iter.windows) = 3
    /\ iter.windows[3] = <<2 * ITER_CACHE_COUNT, remote_count>>
    /\ last.op = "stop"

\* C13: for a remote collection that does not change, an iteration that has
\* ended has yielded as many values as the collection has, the values read
\* at the indices 0, 1, ... after it are the yielded values in their order,
\* and the loop over a window raises nothing of its own.
C13_IterationEqualsIndexing ==
    /\ iter.pc = "done"
         => /\ Len(iter.yielded) = remote_count
            /\ Len(indexed) <= remote_count
            /\ \A i \in DOMAIN indexed : indexed[i] = iter.yielded[i]
            /\ Len(indexed) = remote_count => indexed = iter.yielded
    /\ last.op = "next" => error \in {"", "transport"}

\* A collection of a length that is no multiple of the window has been
\* iterated and then read at every index; its first element is a proxy.
C13_Witness ==
    /\ iter.pc = "done"
    /\ remote_count = ITER_CACHE_COUNT + 1
    /\ Len(indexed) = remote_count
    /\ indexed[1].isobj
    /\ ~indexed[remote_count].isobj
    /\ last.op = "getitem"

\* The index queries among list queries.
IndexQueries(qs) == SelectSeq(qs, LAMBDA q : q[2] = "index")

\* C16: collection[k] and collection[k] = v with an integer k >= len raise
\* IndexError (unless len itself fails at the connection) and send no index
\* query, no property set is sent and no cache entry and no proxy is
\* dropped; a key that is no integer and no slice raises TypeError with no
\* query sent; collection[k] with 0 <= k < len whose result is not cached
\* sends one index query, with the start index k.
C16_IndexAccess ==
    [][ /\ (last'.op \in {"getitem", "setitem"} /\ last'.key[1] >= remote_count)
             => /\ \/ error' = "IndexError"
                   \/ /\ error' = "transport"
                      /\ queries' = <<ListKey("g1", "count", NoIndex, NoIndex)>>
                /\ IndexQueries(queries') = <<>>
                /\ pc' = "idle"
                /\ last'.reqs = Len(queries')
                /\ heap' = heap
                /\ globals_cache' = globals_cache
                /\ values_cache' = values_cache
                /\ \A key \in DOMAIN listables_cache :
                     /\ key \in DOMAIN listables_cache'
                     /\ listables_cache'[key] = listables_cache[key]
        /\ last'.op = "getitem_str"
             => /\ error' = "TypeError"
                /\ queries' = <<>>
                /\ last'.reqs = 0
        /\ (last'.op = "getitem" /\ last'.key[1] < remote_count)
             => /\ IndexQueries(queries') \in
                     { <<>>, <<ListKey("g1", "index", last'.key[1], NoIndex)>> }
                /\ (last'.outcome = "ok" /\ ~ListHit("index", last'.key[1], NoIndex))
                     => IndexQueries(queries') # <<>> ]_vars

\* With the length and the first window cached, an assignment at the index
\* len has raised IndexError without a query.
C16_Witness ==
    /\ allow_caching
    /\ pc = "idle"
    /\ last.op = "setitem"
    /\ last.key = <<remote_count>>
    /\ error = "IndexError"
    /\ queries = <<>>
    /\ remote_count > 0
    /\ Cardinality(DOMAIN listables_cache) >= 2

\* C19 as stated: an assignment of a name of the table to strvalue sends a
\* property set with the ordinal of the name, and once the server has
\* applied it a read of strvalue returns that name; an assignment of a name
\* that is not in the table raises ValueError and sends nothing.
C19_AsStated ==
    [][ /\ (pc = "idle" /\ pc' = "wait")
             => /\ requested'.name \in enum_keys(enum_dict)
                /\ requested'.ordinal = enum_value(enum_dict, requested'.name)
        /\ (last'.op = "strvalue" /\ assigned # NoName /\ error' # "transport")
             => /\ last'.outcome = "ok"
                /\ last'.res = ResBare(Item(FALSE, assigned))
        /\ (last'.op = "strvalue_set" /\ last'.key[1] \notin enum_keys(enum_dict))
             => /\ error' = "ValueError"
                /\ last'.reqs = 0
                /\ pc' = "idle"
                /\ remote_ordinal' = remote_ordinal ]_vars

\* The value the value property of the enumeration proxy gives.
CurrentOrdinal == IF stagedIP_value # NoOrdinal THEN stagedIP_value ELSE remote_ordinal

\* C20: a read of strvalue whose value is the ordinal of no name of the
\* table raises ValueError: it returns nothing, neither a name nor None nor
\* the ordinal; a value of the table gives the first name that has it.
C20_UnknownOrdinalRaises ==
    [][ (last'.op = "strvalue" /\ error' # "transport")
        => IF places(enum_dict, CurrentOrdinal) = {}
           THEN /\ error' = "ValueError"
                /\ last'.outcome = "raised"
                /\ last'.res = ResNone
           ELSE /\ last'.outcome = "ok"
                /\ last'.res = ResBare(Item(FALSE, first_key(enum_dict, CurrentOrdinal))) ]_vars

\* The server holds an ordinal behind those of a table of two names; the
\* read has fetched it and has raised ValueError.
C20_Witness ==
    /\ pc = "idle"
    /\ last.op = "strvalue"
    /\ last.reqs = 1
    /\ error = "ValueError"
    /\ stagedIP_value = NoOrdinal
    /\ remote_ordinal = MaxOrdinal + 1
    /\ Len(enum_dict) = 2

\* C21: an assignment of a name of the table to strvalue, made while the
\* ordinal the property holds is the ordinal of no name of the table, raises
\* ValueError: no property set is sent and the server keeps its ordinal.
C21_AssignWithUnknownOrdinalRaises ==
    [][ /\ (pc = "idle" /\ pc' = "wait") => places(enum_dict, CurrentOrdinal) # {}
        /\ (/\ last'.op = "strvalue_set"
            /\ last'.key[1] \in enum_keys(enum_dict)
            /\ error' # "transport")
             => /\ places(enum_dict, CurrentOrdinal) = {}
                /\ error' = "ValueError"
                /\ last'.outcome = "raised"
                /\ pc' = "idle"
                /\ remote_ordinal' = remote_ordinal ]_vars

\* The server holds an ordinal behind those of the table; the assignment
\* of a name of the table has fetched it and has raised ValueError.
C21_Witness ==
    /\ pc = "idle"
    /\ last.op = "strvalue_set"
    /\ last.key[1] \in enum_keys(enum_dict)
    /\ last.reqs = 1
    /\ error = "ValueError"
    /\ stagedIP_value = NoOrdinal
    /\ remote_ordinal = MaxOrdinal + 1

\* C22: the factory sends at most one successful enumeration request per
\* enum name: a name has a class exactly when one request for it succeeded;
\* the classes are never dropped, neither by clear_proxy_object_cache nor
\* by a project command; a resolve of a property whose enum name has a class
\* sends no request, and a resolve whose request fails adds no class.
C22_OneSchemaRequestPerName ==
    /\ [](\A name \in EnumTags :
            /\ schema_requests[name] <= 1
            /\ schema_requests[name] = 1 <=> name \in proxy_enum_classes)
    /\ [][ /\ proxy_enum_classes \subseteq proxy_enum_classes'
           /\ (last'.op \in {"create_plx_proxy_object", "create_stagedIP_proxy"}
               /\ last'.key[2] \in proxy_enum_classes)
                => last'.reqs = 0
           /\ last'.outcome = "raised" => proxy_enum_classes' = proxy_enum_classes ]_vars

\* An enumeration was requested once with success, and a property of another
\* token with the same enum name was resolved without a request.
C22_Witness ==
    /\ last.op = "create_stagedIP_proxy"
    /\ last.outcome = "ok"
    /\ last.reqs = 0
    /\ Len(heap) = 2
    /\ heap[1].guid # heap[2].guid
    /\ heap[1].plx_type = heap[2].plx_type
    /\ schema_requests[heap[2].plx_type] = 1

\* What a property set carries for a value that is assigned: the value, and
\* for a property proxy that is not staged the value it stands for (the one
\* it holds, or the one the server returns).
Carried(value) ==
    CASE value.kind = "property" ->
           Item(FALSE, IF value.pinned # NoOrdinal THEN value.pinned ELSE 1)
      [] value.kind = "staged" -> Item(TRUE, TheStaged)
      [] OTHER -> Item(FALSE, value.v)

C24_AsStated ==
    [][ /\ (/\ last'.op \in {"staged_getitem", "staged_iter", "staged_setitem"}
            /\ ~last'.key[1].isproxy)
             => /\ error' = "TypeError"
                /\ last'.reqs = 0
                /\ last'.outcome = "raised"
        /\ (pc = "idle" /\ pc' = "wait") => staged_request'.key.isproxy ]_vars

\* The part of C24 that holds: it is the read, and the iteration, that
\* raise TypeError for a key that is not a proxy object.
C24_ReadChecksKey ==
    [][ (last'.op \in {"staged_getitem", "staged_iter"} /\ ~last'.key[1].isproxy)
          => /\ error' = "TypeError"
             /\ last'.reqs = 0
             /\ last'.outcome = "raised" ]_vars

\* C25: the value of a property proxy built by _create_stagedIP_proxy is the
\* literal of the response it was built from: the proxy keeps it whatever is
\* called, and a read of value returns it without a request, also when the
\* literal is 0 and also after the server has taken another value.
C25_StagedValuePinned ==
    [][ /\ stagedIP_value # NoOrdinal => stagedIP_value' = stagedIP_value
        /\ (last'.op = "value" /\ stagedIP_value # NoOrdinal)
             => /\ last'.outcome = "ok"
                /\ last'.res = ResBare(Item(FALSE, stagedIP_value))
                /\ last'.reqs = 0 ]_vars

\* The proxy was built from the literal 0; an assignment has changed the
\* value at the server; the read of value has returned 0 without a request.
C25_Witness ==
    /\ pc = "idle"
    /\ last.op = "value"
    /\ last.reqs = 0
    /\ last.res = ResBare(Item(FALSE, 0))
    /\ stagedIP_value = 0
    /\ assigned # NoName
    /\ remote_ordinal # 0

\* The proxies whose attribute cache the server resets.
Volatile(o) == \E i \in DOMAIN proxies_to_reset : proxies_to_reset[i] = o

\* C26 as stated: once the members of a proxy that is not volatile were
\* fetched, whatever they were, an attribute access sends no request.
C26_AsStated ==
    [][ (/\ last'.op = "attr_cache"
         /\ last'.key[1] \in members_fetched
         /\ ~Volatile(last'.key[1]))
          => last'.reqs = 0 ]_vars

\* The part of C26 that holds: members that are not empty are fetched once.
C26_NonEmptyFetchedOnce ==
    [][ (/\ last'.op = "attr_cache"
         /\ last'.key[1] \in members_fetched
         /\ ~Volatile(last'.key[1])
         /\ heap[last'.key[1]].attrs # <<>>)
          => last'.reqs = 0 ]_vars

\* C27 as stated: the resolution of an attribute of the global object calls
\* get_named_object first; the attribute cache gives the attribute only
\* after that lookup has missed, and when both miss AttributeError is raised.
C27_AsStated ==
    [][ last'.op = "global_getattr"
          => /\ resolved'[1] = "named"
             /\ \A i \in DOMAIN resolved' :
                  resolved'[i] = "map" => \E j \in 1..(i - 1) : resolved'[j] = "named"
             /\ (last'.outcome = "raised" /\ error' # "transport")
                  => error' = "AttributeError" ]_vars

\* What the code does: an attribute that is in the attribute cache is
\* returned from it without a request; otherwise get_named_object is called,
\* and after its miss the attribute cache is refilled by one members request
\* and the attribute is looked up in the same way once more.
C27_MapBeforeNamed ==
    [][ last'.op = "global_getattr"
          => /\ last'.key[1] \in global_attr_cache
                  => /\ resolved' = <<"map">>
                     /\ last'.reqs = 0
                     /\ last'.outcome = "ok"
             /\ last'.key[1] \notin global_attr_cache
                  => /\ resolved'[1] = "named"
                     /\ Len(resolved') \in {1, 2, 3}
                     /\ Len(resolved') >= 2 => resolved'[2] = "members"
                     /\ Len(resolved') = 3 =>
                          resolved'[3] = IF last'.key[1] \in global_attr_cache'
                                         THEN "map" ELSE "named" ]_vars

\* The entity a response handled by HandleOwnedObject or HandleJsonObject
\* ends with, and whether an entity before it has the token g.
LastReturned(ros) == ros[Len(ros)]
ReturnedBefore(ros, g) == \E j \in 1..(Len(ros) - 1) : ros[j].guid = g

\* C28 as stated: an entity whose owner token is not in the identity map has
\* the members of its owner fetched, and its proxy is constructed after that.
C28_AsStated ==
    [][ (/\ last'.op = "owned_object"
         /\ LastReturned(returned').ownerguid \notin DOMAIN proxy_object_cache
         /\ ~ReturnedBefore(returned', LastReturned(returned').ownerguid))
          => /\ last'.nested >= 1
             /\ last'.outcome = "ok"
                  => LastReturned(returned').guid \in DOMAIN proxy_object_cache' ]_vars

\* C28, amended: an entity that names an owner that is in the identity map,
\* while its own token is not, has the members of its owner requested first
\* (one request); the entity has a proxy afterwards only when that request
\* was answered, and that proxy has the owner. An entity whose own token is in
\* the identity map is returned from it without a request.
C28_FetchBeforeConstruct ==
    [][ (/\ last'.op = "owned_object"
         /\ returned' = <<Name>>
         /\ Name.ownerguid \in DOMAIN proxy_object_cache)
          => /\ Name.guid \notin DOMAIN proxy_object_cache
                  => /\ last'.nested = 1
                     /\ last'.reqs = 1
                     /\ last'.outcome = "raised"
                          <=> Name.guid \notin DOMAIN proxy_object_cache'
                     /\ last'.outcome = "raised" <=> last'.key[1]
                     /\ last'.outcome = "ok"
                          => /\ heap'[proxy_object_cache'[Name.guid]].owner
                                  = proxy_object_cache[Name.ownerguid]
                             /\ last'.res
                                  = ResBare(Item(TRUE, proxy_object_cache'[Name.guid]))
             /\ Name.guid \in DOMAIN proxy_object_cache
                  => /\ last'.nested = 0
                     /\ last'.reqs = 0
                     /\ last'.res = ResBare(Item(TRUE, proxy_object_cache[Name.guid]))
                     /\ heap' = heap ]_vars

\* The members of the owner were requested and answered, and the property
\* has its proxy with that owner.
C28_Witness ==
    /\ last.op = "owned_object"
    /\ returned = <<Name>>
    /\ last.nested = 1
    /\ last.outcome = "ok"
    /\ Name.guid \in DOMAIN proxy_object_cache
    /\ Name.ownerguid \in DOMAIN proxy_object_cache
    /\ heap[proxy_object_cache[Name.guid]].owner = proxy_object_cache[Name.ownerguid]

\* C29: an entity that names an owner token that is not in the identity map
\* makes the interpretation raise PlxScriptingError; no request is sent, the
\* entity gets no proxy and no entry in the identity map, and a response of
\* that entity alone leaves the identity map and the proxies as they were.
C29_MissingOwnerRaises ==
    [][ (/\ last'.op = "owned_object"
         /\ LastReturned(returned').ownerguid \notin DOMAIN proxy_object_cache
         /\ ~ReturnedBefore(returned', LastReturned(returned').ownerguid))
          => /\ last'.outcome = "raised"
             /\ error' = "PlxScriptingError"
             /\ last'.reqs = 0
             /\ last'.nested = 0
             /\ \A g \in DOMAIN proxy_object_cache' \ DOMAIN proxy_object_cache :
                  ReturnedBefore(returned', g)
             /\ \A g \in DOMAIN proxy_object_cache :
                  /\ g \in DOMAIN proxy_object_cache'
                  /\ proxy_object_cache'[g] = proxy_object_cache[g]
             /\ \A id \in DOMAIN heap' \ DOMAIN heap :
                  /\ heap'[id].guid # LastReturned(returned').guid
                  /\ ReturnedBefore(returned', heap'[id].guid)
             /\ Len(returned') = 1
                  => /\ proxy_object_cache' = proxy_object_cache
                     /\ heap' = heap ]_vars

\* The response returned the soil material and then a property of an owner
\* that is not in the identity map: the material is mapped, the property is
\* not.
C29_Witness ==
    /\ last.op = "owned_object"
    /\ returned = <<Soil, Orphan>>
    /\ last.outcome = "raised"
    /\ error = "PlxScriptingError"
    /\ Soil.guid \in DOMAIN proxy_object_cache
    /\ Orphan.guid \notin DOMAIN proxy_object_cache

\* What HandleJsonObject returns for the JSON object the response ends with.
JsonItem(res) == res.items[Len(res.items)]

\* C30: a returned object of the type JSON makes no proxy and no entry in
\* the identity map and sends no request. A dict payload with a content type
\* is given to the constructor registered for that content type and the
\* constructor's result is returned; without such a constructor Exception is
\* raised; any other payload is returned as it is.
C30_JsonObject ==
    [][ last'.op = "json_object"
          => LET json_object == LastReturned(returned').json
             IN /\ last'.reqs = 0
                /\ \A g \in DOMAIN proxy_object_cache' \ DOMAIN proxy_object_cache :
                     ReturnedBefore(returned', g)
                /\ \A id \in DOMAIN heap' \ DOMAIN heap :
                     ReturnedBefore(returned', heap'[id].guid)
                /\ Len(returned') = 1
                     => /\ proxy_object_cache' = proxy_object_cache
                        /\ heap' = heap
                /\ last'.outcome = "ok"
                     => /\ Len(last'.res.items) = Len(returned')
                        /\ ~JsonItem(last'.res).isobj
                /\ (json_object.ismap /\ json_object.ctype # "")
                     => IF json_object.ctype \in DOMAIN json_constructors
                        THEN /\ last'.outcome = "ok"
                             /\ JsonItem(last'.res).v
                                  = Constructed(json_constructors[json_object.ctype],
                                                json_object)
                        ELSE /\ last'.outcome = "raised"
                             /\ error' = "Exception"
                /\ ~(json_object.ismap /\ json_object.ctype # "")
                     => /\ last'.outcome = "ok"
                        /\ JsonItem(last'.res).v = json_object.v ]_vars

\* A payload with the content type "table" was given to the constructor
\* registered for it, which is not the one registered for "image".
C30_Witness ==
    /\ last.op = "json_object"
    /\ returned = <<RetJson(Payload(TRUE, "table", 3))>>
    /\ DOMAIN json_constructors = ContentTypes
    /\ json_constructors["image"] # json_constructors["table"]
    /\ last.outcome = "ok"
    /\ last.res = ResBare(Item(FALSE, Constructed(json_constructors["table"],
                                                   Payload(TRUE, "table", 3))))

\* The operations whose response the result handler checks for success.
CheckedOps ==
    {"get_named_object", "call_listable_method", "call_plx_object_method",
     "set_object_property"}
\* The three query caches.
query_caches == <<globals_cache, values_cache, listables_cache>>

\* C31: a named-object, a list or a command response whose success flag is
\* false raises PlxScriptingError with the message "Unsuccessful command:"
\* and the extra information of the response; no proxy is made or mapped
\* from it and the query caches stay as they were.
C31_UnsuccessfulRaises ==
    [][ (last'.op \in CheckedOps /\ answer'.kind = "unsuccessful")
          => /\ last'.outcome = "raised"
             /\ error' = "PlxScriptingError"
             /\ message' = <<"Unsuccessful command:", answer'.extrainfo>>
             /\ heap' = heap
             /\ proxy_object_cache' = proxy_object_cache
             /\ query_caches' = query_caches ]_vars

\* A list query was answered "busy" while caching is allowed and a proxy
\* exists.
C31_Witness ==
    /\ last.op = "call_listable_method"
    /\ answer = [kind |-> "unsuccessful", extrainfo |-> "busy"]
    /\ message = <<"Unsuccessful command:", "busy">>
    /\ allow_caching
    /\ heap # <<>>

\* The keys of the query cache of a namespace.
CachedKeys(ns, caches) == DOMAIN caches[IF ns = "g" THEN 1 ELSE IF ns = "v" THEN 2 ELSE 3]

\* C37: a read that raises, because the connection raised or because the
\* result handler raised for the response, leaves the three query caches as
\* they were and its key is in none of them; the same read right after it
\* sends a new request.
C37_FailedReadStoresNothing ==
    /\ [][ (last'.ns # "" /\ last'.outcome = "raised")
             => /\ query_caches' = query_caches
                /\ last'.reqs >= 1
                /\ last'.key \notin CachedKeys(last'.ns, query_caches') ]_vars
    /\ [][ (/\ last.ns # ""
            /\ last.outcome = "raised"
            /\ last'.ns = last.ns
            /\ last'.key = last.key)
             => /\ last'.reqs >= 1
                /\ answer'.kind # "none" ]_vars

\* A named-object lookup raised in the result handler and one in the
\* connection, while caching is allowed and another read is cached.
C37_Witness ==
    /\ last.op = "get_named_object"
    /\ last.outcome = "raised"
    /\ answer.kind \in {"raises", "unsuccessful"}
    /\ allow_caching
    /\ values_cache # <<>>
    /\ globals_cache = <<>>

\* C32: handle_propertyvalues_response returns one entry per query in the
\* order of the queries and raises nothing for a query without the
\* attribute: the entry of a query that failed, that lacks the attribute or
\* whose attribute is the null guid is None, a primitive is returned as it
\* is, and a dict gives the proxy of its token.
C32_OneEntryPerQuery ==
    [][ last'.op = "handle_propertyvalues_response"
          => /\ last'.outcome = "ok"
             /\ last'.res.kind = "list"
             /\ Len(last'.res.items) = Len(last'.key)
             /\ \A i \in DOMAIN last'.key :
                  /\ last'.key[i] \in {"failed", "absent", "null"}
                       => last'.res.items[i] = None
                  /\ last'.key[i] = "prim"
                       => last'.res.items[i] = Item(FALSE, returned'[i].prim)
                  /\ last'.key[i] = "dict"
                       => /\ last'.res.items[i].isobj
                          /\ last'.res.items[i].v = proxy_object_cache'[returned'[i].guid] ]_vars

\* A failed query between a primitive and an entity: three entries, None in
\* the middle.
C32_Witness ==
    /\ last.op = "handle_propertyvalues_response"
    /\ last.key = <<"prim", "failed", "dict">>
    /\ Len(last.res.items) = 3
    /\ last.res.items[1] = Item(FALSE, 1)
    /\ last.res.items[2] = None
    /\ last.res.items[3].isobj

\* The names of the attributes of an entity that are not methods.
PropertiesOf(e) ==
    IF e = NoEntity THEN {}
    ELSE {n \in DOMAIN EntityMembers(e) : EntityMembers(e)[n] # Method}

\* C33 as stated: after every attribute access of an object-valued property
\* proxy its attribute set is the union of its own attributes and the
\* property attributes (not the methods) of the entity it wraps now.
C33_AsStated ==
    [][ accessed' # accessed
          => DOMAIN ip_attrs'.attr_cache = DOMAIN own_members \cup PropertiesOf(wrapped) ]_vars

\* What the code does: the attribute set is recomputed on every access as
\* the kept map merged with every member of the wrapped entity, its
\* methods too; the kept map is the property's own members once they were
\* fetched non-empty, and own members are requested while the set is empty.
C33_MergedOnEveryAccess ==
    [][ accessed' # accessed
          => /\ DOMAIN ip_attrs'.attr_cache
                  = DOMAIN ip_attrs'.ip_attr_cache
                    \cup (IF wrapped = NoEntity THEN {} ELSE DOMAIN EntityMembers(wrapped))
             /\ own_members # <<>> => ip_attrs'.ip_attr_cache = own_members
             /\ accessed'.reqs = 1 <=> ip_attrs.attr_cache = <<>> ]_vars

\* The variant C34 names for an owner (or none), a type tag and the
\* collection flag.
VariantWithOwner(plx_type, is_listable) ==
    IF plx_type = "Boolean" THEN "PlxProxyIPBoolean"
    ELSE IF plx_type \in EnumTags THEN "PlxProxyIPEnumeration"
    ELSE IF plx_type = "Number" THEN "PlxProxyIPDouble"
    ELSE IF plx_type = "Integer" THEN "PlxProxyIPInteger"
    ELSE IF plx_type = "Object"
         THEN (IF is_listable THEN "PlxProxyIPObjectListable" ELSE "PlxProxyIPObject")
    ELSE IF plx_type = "Text" THEN "PlxProxyIPText"
    ELSE IF plx_type \in StagedTags THEN "PlxProxyIPStaged"
    ELSE IF is_listable THEN "PlxProxyObjectPropertyListable"
    ELSE "PlxProxyObjectProperty"
VariantWithoutOwner(plx_type, is_listable) ==
    IF plx_type = "PlxValues" THEN "PlxProxyObjectValues"
    ELSE IF plx_type = "SoilMat" THEN "PlxProxyObjectMaterial"
    ELSE IF is_listable THEN "PlxProxyObjectListable"
    ELSE "PlxProxyObject"

\* C34: for a token that is not in the identity map,
\* create_plx_proxy_object constructs the variant that the owner, the type
\* tag and the collection flag select, and maps the token to it.
C34_VariantDispatch ==
    [][ (/\ last'.op = "create_variant"
         /\ last'.key[1] \notin DOMAIN proxy_object_cache
         /\ last'.outcome = "ok")
          => LET proxy == heap'[proxy_object_cache'[last'.key[1]]]
             IN /\ last'.res = ResBare(Item(TRUE, proxy_object_cache'[last'.key[1]]))
                /\ proxy.plx_type = last'.key[2]
                /\ proxy.cls = IF last'.key[4] # NoObj
                               THEN VariantWithOwner(last'.key[2], last'.key[3])
                               ELSE VariantWithoutOwner(last'.key[2], last'.key[3])
                /\ proxy.owner = last'.key[4] ]_vars

\* A disposable collection was made without an owner, and then, with it as
\* the owner, an object-valued property with the collection capability.
C34_Witness ==
    /\ last.op = "create_variant"
    /\ last.key = <<"g2", "Object", TRUE, 1>>
    /\ Len(heap) = 2
    /\ heap[1].cls = "PlxProxyObjectValues"
    /\ heap[2].cls = "PlxProxyIPObjectListable"
    /\ heap[2].owner = 1

\* The method op of the Selection has returned or raised in this step.
Returns(op) == selection_call'.op = op /\ pc' = "idle"

\* The selection request of this step: one request, with command and the
\* tokens of objects.
SendsOnly(command, objects) ==
    /\ last'.reqs = 1
    /\ selection_request' = [name |-> command, objects |-> guids(objects)]

\* C35: pop on a selection that is not empty sends one remove with the last
\* local object only, and on an empty selection sends nothing; clear sends a
\* set without objects; del selection[i] sends a remove with the object at i;
\* selection[i] = h sends a set with the local list in which h has replaced
\* the object at i; when the method has returned, the local selection holds
\* the proxies of the tokens of the response, in its order.
C35_SelectionMethods ==
    [][ /\ Returns("pop") =>
             IF selection_call'.before # <<>>
             THEN SendsOnly(SELECTION_REMOVE,
                            <<selection_call'.before[Len(selection_call'.before)]>>)
             ELSE /\ last'.reqs = 0
                  /\ selection_request' = selection_request
                  /\ selection_objects' = <<>>
        /\ Returns("clear") => SendsOnly(SELECTION_SET, <<>>)
        /\ (Returns("delitem") /\ last'.op = "selection") =>
             SendsOnly(SELECTION_REMOVE, <<selection_call'.before[selection_call'.index]>>)
        /\ (Returns("setitem") /\ last'.op = "selection") =>
             SendsOnly(SELECTION_SET,
                       [selection_call'.before EXCEPT ![selection_call'.index] =
                                                         selection_call'.obj])
        /\ (selection_call'.op \in {"pop", "clear", "delitem", "setitem"}
            /\ last'.op = "selection" /\ last'.outcome = "ok")
             => LocalSelection' = server_selection' ]_vars

\* pop has returned on a selection of two objects with different tokens, and
\* the selection that the server returned holds one object.
C35_Witness ==
    /\ pc = "idle"
    /\ selection_call.op = "pop"
    /\ Len(selection_call.before) = 2
    /\ heap[selection_call.before[1]].guid # heap[selection_call.before[2]].guid
    /\ last.op = "selection"
    /\ last.outcome = "ok"
    /\ selection_request.name = SELECTION_REMOVE
    /\ Len(selection_objects) = 1

\* A read of the property of the staged owner has sent its request in this
\* step, and the response holds a primitive with a token for the property.
PhasePrimitiveRead ==
    /\ last'.op = "get_object_property"
    /\ last'.reqs >= 1
    /\ last'.outcome = "ok"
    /\ answer'.kind = "dict"
    /\ is_primitive(answer'.attr.type)

\* C36: the proxy that _create_stagedIP_proxy builds for a primitive of a
\* staged owner is not registered in the identity map: the map is left as it
\* was, get_proxy_object_if_exists gives None for its token, and every read
\* that sends a request returns a proxy that did not exist before, also for
\* a token that an earlier read has returned.
C36_StagedProxyNotRegistered ==
    [][ PhasePrimitiveRead
        => /\ proxy_object_cache' = proxy_object_cache
           /\ get_proxy_object_if_exists(proxy_object_cache', answer'.attr.guid) = NoObj
           /\ \E p \in DOMAIN heap' \ DOMAIN heap :
                /\ last'.res = ResBare(Item(TRUE, p))
                /\ heap'[p].guid = answer'.attr.guid
                /\ heap'[p].owner = NoObj
                /\ heap'[p].stagedIP_value = answer'.attr.value ]_vars

\* With caching allowed, two reads with different phase keys have returned
\* the same token, and the values cache holds a different proxy for each.
C36_Witness ==
    /\ pc = "idle"
    /\ allow_caching
    /\ last.op = "get_object_property"
    /\ last.outcome = "ok"
    /\ last.reqs = 1
    /\ \E k1, k2 \in DOMAIN values_cache :
         /\ k1 # k2
         /\ values_cache[k1].items[1].isobj /\ values_cache[k2].items[1].isobj
         /\ values_cache[k1].items[1].v # values_cache[k2].items[1].v
         /\ heap[values_cache[k1].items[1].v].guid = "g2"
         /\ heap[values_cache[k2].items[1].v].guid = "g2"
    /\ "g2" \notin DOMAIN proxy_object_cache

\* The values cache holds the value of the server for the shared property,
\* or nothing.
CacheCurrent ==
    SharedKey \in DOMAIN values_cache
        => values_cache[SharedKey] = ResList(<<Item(FALSE, remote_value)>>)

\* C38: when the host takes one lock around every operation of the Server,
\* the values cache never holds a value that the server has replaced, and
\* every read returns the value the server has when the read returns.
\* (Without the lock the witness below is reached: a read that waits for the
\* connection stores its value after the reset of a command.)
C38_LockKeepsReadsCurrent ==
    use_lock => /\ CacheCurrent
                /\ \A t \in Threads : threads[t].fresh

\* Without the lock: no thread is in an operation, the command of a thread
\* has returned, the values cache holds the value from before the command,
\* and a read has returned that value without a request.
C38_Witness ==
    /\ ~use_lock
    /\ \A t \in Threads : threads[t].pc = "idle"
    /\ \E t \in Threads : threads[t].op = "call_commands"
    /\ SharedKey \in DOMAIN values_cache
    /\ ~CacheCurrent
    /\ \E t \in Threads :
         /\ threads[t].op = "read"
         /\ threads[t].calls = 0
         /\ ~threads[t].fresh
         /\ ResList(<<threads[t].result.items[1]>>) = values_cache[SharedKey]

\* The materials that this step has constructed.
NewMaterials ==
    { p \in DOMAIN heap' \ DOMAIN heap : heap'[p].cls = "PlxProxyObjectMaterial" }

\* C39: the registry of the proxies to reset only grows: every step leaves
\* the entries it had, in their order, and appends the materials it has
\* constructed, also for a token whose earlier proxy is registered; new,
\* open, close, recover and clear_proxy_object_cache remove nothing; and
\* every mutating call resets every registered proxy, whether the identity
\* map still holds it or not.
C39_RegistryOnlyGrows ==
    [][ /\ Len(proxies_to_reset') = Len(proxies_to_reset) + Cardinality(NewMaterials)
        /\ SubSeq(proxies_to_reset', 1, Len(proxies_to_reset)) = proxies_to_reset
        /\ \A p \in NewMaterials : p \in Range(proxies_to_reset')
        /\ (pc' = "wait" /\ pending' \in MutatingOps)
             => \A i \in DOMAIN proxies_to_reset :
                  heap'[proxies_to_reset[i]].attr_none ]_vars

\* A mutating call has just reset two registered materials with the same
\* token: the identity map holds the second only, the first is of the
\* project before the transition.
C39_Witness ==
    /\ pc = "wait"
    /\ pending \in MutatingOps
    /\ Len(proxies_to_reset) = 2
    /\ proxies_to_reset[1] # proxies_to_reset[2]
    /\ heap[proxies_to_reset[1]].guid = heap[proxies_to_reset[2]].guid
    /\ heap[proxies_to_reset[1]].guid \in DOMAIN proxy_object_cache
    /\ proxy_object_cache[heap[proxies_to_reset[1]].guid] = proxies_to_reset[2]
    /\ heap[proxies_to_reset[1]].attr_none
    /\ heap[proxies_to_reset[2]].attr_none

\* The list query of the window that the generator asks for next, cut to
\* the length it has read when it started.
WindowQuery ==
    ListKey("g1", "sublist", iter.cache_start, cache_end(iter.cache_start, iter.length))
\* The list query of the length.
CountQuery == ListKey("g1", "count", NoIndex, NoIndex)

\* C40: an iteration reads the length of the collection once, when it
\* starts; while it runs the length it holds does not change, whatever the
\* commands between its windows do to the collection; each step asks for
\* the window from cache_start cut to that length and for nothing else, with
\* a request of its own when a command has returned since the window
\* before; and it ends when the windows have covered that length.
C40_LengthReadOnce ==
    [][ /\ (last'.op = "iter" /\ iter'.pc = "running")
             => /\ queries' \in {<<>>, <<CountQuery>>}
                /\ iter'.length = remote_count
        /\ (iter.pc = "running" /\ iter'.pc # "none") => iter'.length = iter.length
        /\ (iter.pc = "running" /\ last'.op = "next")
             => /\ queries' \in {<<>>, <<WindowQuery>>}
                /\ last.op = "call_commands"
                     => /\ queries' = <<WindowQuery>>
                        /\ last'.reqs = 1
        /\ (iter.pc = "running" /\ last'.op = "stop")
             => /\ queries' = <<>>
                /\ last'.reqs = 0
                /\ iter.cache_start = iter.length
                /\ Len(iter.windows) = CeilDiv(iter.length, ITER_CACHE_COUNT) ]_vars

\* With caching allowed, an iteration over a collection of one window and
\* one element has asked for its second window after a command that has
\* made the collection longer: the cache holds that window only, and the
\* window ends at the length read at the start.
C40_Witness ==
    /\ pc = "idle"
    /\ allow_caching
    /\ iter.pc = "running"
    /\ last.op = "next"
    /\ last.reqs = 1
    /\ iter.length = ITER_CACHE_COUNT + 1
    /\ remote_count = 2 * ITER_CACHE_COUNT + 1
    /\ iter.windows = << <<0, ITER_CACHE_COUNT>>, <<ITER_CACHE_COUNT, ITER_CACHE_COUNT + 1>> >>
    /\ DOMAIN listables_cache
         = { ListKey("g1", "sublist", ITER_CACHE_COUNT, ITER_CACHE_COUNT + 1) }

====
